---- MODULE Spec2Model ----
(***************************************************************************)
(* Model of the root-confined file service of vscode-for-web: the path    *)
(* resolver (LocalFileServiceImpl.resolve), the file service operations   *)
(* (core.LocalFileServiceImpl) and the HTTP handlers (FSHandler) over a   *)
(* small POSIX-like file tree.                                            *)
(*                                                                         *)
(* Strings are sequences of one-character strings, so that the string     *)
(* prefix test of resolve is a test on characters and not on segments.    *)
(* A file tree is a record [names, data]: names maps an absolute cleaned  *)
(* path to 0 (a directory) or to an inode number > 0 (a regular file);    *)
(* data maps each live inode to its byte sequence.  There are no symbolic *)
(* links in the modelled tree.                                            *)
(***************************************************************************)
EXTENDS Integers, Sequences, FiniteSets, TLC

\* ------------------------------------------------------------------ bounds

\* Longest request body / stream content, in bytes.
MaxLen == 2
\* Number of file service calls or HTTP requests in one run.
MaxCalls == 1

\* ------------------------------------------------------------ sequencing

\* The only element of a one-element set.
Only(S) == CHOOSE y \in S : TRUE

\* Bind(v, LAMBDA x : e) is e with x naming the value of v: "x := v; e".
\* The value of v is computed once, wherever x is used in e.
Bind(v, F(_)) == Only({F(y) : y \in {v}})

\* ----------------------------------------------------------------- strings

SEP == "/"
DOT == "."

\* strings.HasPrefix
HasPrefix(s, p) ==
    /\ Len(p) <= Len(s)
    /\ SubSeq(s, 1, Len(p)) = p

\* strings.HasSuffix
HasSuffix(s, p) ==
    /\ Len(p) <= Len(s)
    /\ SubSeq(s, Len(s) - Len(p) + 1, Len(s)) = p

\* strings.TrimPrefix: removes ONE leading occurrence of p
TrimPrefix(s, p) ==
    IF HasPrefix(s, p) THEN SubSeq(s, Len(p) + 1, Len(s)) ELSE s

\* strings.TrimSpace(s) == "": every character of s is a blank
IsBlank(s) == \A i \in 1..Len(s) : s[i] = " "

\* The components of s between separators, empty components included.
RECURSIVE SplitFrom(_, _, _)
SplitFrom(s, i, cur) ==
    IF i > Len(s) THEN <<cur>>
    ELSE IF s[i] = SEP THEN <<cur>> \o SplitFrom(s, i + 1, <<>>)
    ELSE SplitFrom(s, i + 1, Append(cur, s[i]))

Split(s) == SplitFrom(s, 1, <<>>)

\* segs joined with the separator
RECURSIVE JoinFrom(_, _)
JoinFrom(segs, i) ==
    IF i > Len(segs) THEN <<>>
    ELSE IF i = Len(segs) THEN segs[i]
    ELSE segs[i] \o <<SEP>> \o JoinFrom(segs, i + 1)

JoinSegs(segs) == JoinFrom(segs, 1)

DotDot == <<DOT, DOT>>

\* The component stack of filepath.Clean from component i on: "" and "." are
\* skipped, ".." pops a real component, is dropped at the root of a rooted
\* path and is kept at the front of a relative one.
RECURSIVE CleanStack(_, _, _, _)
CleanStack(segs, i, out, rooted) ==
    IF i > Len(segs) THEN out
    ELSE IF segs[i] = <<>> \/ segs[i] = <<DOT>> THEN CleanStack(segs, i + 1, out, rooted)
    ELSE IF segs[i] # DotDot THEN CleanStack(segs, i + 1, Append(out, segs[i]), rooted)
    ELSE IF out # <<>> /\ out[Len(out)] # DotDot
    THEN CleanStack(segs, i + 1, SubSeq(out, 1, Len(out) - 1), rooted)
    ELSE IF rooted THEN CleanStack(segs, i + 1, out, rooted)
    ELSE CleanStack(segs, i + 1, Append(out, segs[i]), rooted)

IsAbs(p) == p # <<>> /\ p[1] = SEP

\* the cleaned components of p
Components(p) ==
    Bind(Split(p), LAMBDA segs : CleanStack(segs, 1, <<>>, IsAbs(p)))

\* filepath.Clean
Clean(p) ==
    IF p = <<>> THEN <<DOT>>
    ELSE Bind(Components(p), LAMBDA st :
         IF IsAbs(p) THEN <<SEP>> \o JoinSegs(st)
         ELSE IF st = <<>> THEN <<DOT>>
         ELSE JoinSegs(st))

\* filepath.Join of two elements: empty elements are ignored, the rest is
\* joined with the separator and cleaned; all empty gives "".
Join(a, b) ==
    IF a = <<>> /\ b = <<>> THEN <<>>
    ELSE IF a = <<>> THEN Clean(b)
    ELSE IF b = <<>> THEN Clean(a)
    ELSE Bind(a \o <<SEP>> \o b, LAMBDA j : Clean(j))

\* The working directory of the server process.
Cwd == <<SEP>>

\* filepath.Abs cannot fail on the modelled platform (os.Getwd succeeds).
Abs(p) == IF IsAbs(p) THEN Clean(p) ELSE Join(Cwd, p)

\* filepath.Dir of a cleaned absolute path
Dir(p) ==
    Bind(Components(p), LAMBDA segs :
         IF segs = <<>> THEN <<SEP>>
         ELSE <<SEP>> \o JoinSegs(SubSeq(segs, 1, Len(segs) - 1)))

\* filepath.Base
Base(p) ==
    IF p = <<>> THEN <<DOT>>
    ELSE Bind(Components(p), LAMBDA segs :
         IF segs # <<>> THEN segs[Len(segs)]
         ELSE IF IsAbs(p) THEN <<SEP>>
         ELSE <<DOT>>)

\* ----------------------------------------------------------- path resolver

ErrNone == "nil"
ErrPathTraversal == "ErrPathTraversal"
ErrNotFound == "ErrNotFound"
ErrIsDirectory == "ErrIsDirectory"
ErrNotDirectory == "ErrNotDirectory"
ErrAlreadyExists == "ErrAlreadyExists"
ErrDirNotEmpty == "ErrDirNotEmpty"
ErrMissingNewName == "ErrMissingNewName"

\* rootWithSep of resolve: the root with one separator appended unless it ends
\* with one.
RootWithSep(root) ==
    IF HasSuffix(root, <<SEP>>) THEN root ELSE root \o <<SEP>>

\* Confinement by the bare prefix test, the separator forgotten.
ConfinedNoSep(root, abs) ==
    abs = root \/ HasPrefix(abs, root)

\* The confinement test of resolve on the cleaned absolute path.
Confined(root, abs) ==
    abs = root \/ HasPrefix(abs, RootWithSep(root))

\* LocalFileServiceImpl.resolve
resolve(root, rel) ==
    Bind(TrimPrefix(rel, <<SEP>>), LAMBDA trimmed :
    Bind(Join(root, trimmed), LAMBDA joined :
    Bind(Clean(joined), LAMBDA cleaned :
    Bind(Abs(cleaned), LAMBDA abs :
         IF Confined(root, abs)
         THEN [abs |-> abs, err |-> ErrNone]
         ELSE [abs |-> <<>>, err |-> ErrPathTraversal]))))

\* ------------------------------------------------------- the file tree (OS)

ENOENT == "ENOENT"
ENOTDIR == "ENOTDIR"
EISDIR == "EISDIR"
ENOTEMPTY == "ENOTEMPTY"
EINVAL == "EINVAL"
EACCES == "EACCES"
EIO == "EIO"

\* os.IsNotExist
IsNotExist(err) == err = ENOENT

\* os.IsPermission
IsPermission(err) == err = EACCES

RootPath == <<SEP>>

Exists(d, p) == p \in DOMAIN d.names
IsDirAt(d, p) == Exists(d, p) /\ d.names[p] = 0
IsFileAt(d, p) == Exists(d, p) /\ d.names[p] # 0

\* p as a directory prefix: "/" for the root, p + "/" otherwise
DirPrefix(p) == IF p = RootPath THEN p ELSE p \o <<SEP>>

\* q lies strictly below the directory p
IsUnder(q, p) == q # p /\ HasPrefix(q, DirPrefix(p))

\* the direct entries of directory p (Readdirnames, ReadDir)
Children(d, p) == {q \in DOMAIN d.names : q # p /\ Dir(q) = p}

\* the deepest existing path among p and its ancestors ("/" always exists)
RECURSIVE ExistingAnc(_, _)
ExistingAnc(d, p) ==
    IF Exists(d, p) \/ p = RootPath THEN p
    ELSE Bind(Dir(p), LAMBDA parent : ExistingAnc(d, parent))

\* p and its ancestors up to "/"
RECURSIVE AncOrSelf(_)
AncOrSelf(p) ==
    IF p = RootPath THEN {p}
    ELSE Bind(Dir(p), LAMBDA parent : {p} \cup AncOrSelf(parent))

\* the errno of a path walk to p: nil, ENOENT (a component is missing) or
\* ENOTDIR (a component that must be a directory is a file)
LookupErr(d, p) ==
    IF Exists(d, p) THEN ErrNone
    ELSE Bind(ExistingAnc(d, p), LAMBDA anc :
         IF IsFileAt(d, anc) THEN ENOTDIR ELSE ENOENT)

\* os.Stat: the error only (the model reads kind and size from the tree)
OsStat(d, p) == LookupErr(d, p)

\* the tree without the data of inodes that neither a name nor an open
\* descriptor in `open` keeps
Gc(d, open) ==
    Bind({d.names[q] : q \in DOMAIN d.names} \cup open, LAMBDA live :
         [names |-> d.names,
          data |-> [i \in (DOMAIN d.data) \cap live |-> d.data[i]]])

\* the smallest inode number not in use
FreshIno(d) ==
    CHOOSE i \in 1..(Cardinality(DOMAIN d.data) + 1) :
        /\ i \notin DOMAIN d.data
        /\ \A j \in 1..(i - 1) : j \in DOMAIN d.data

\* f extended or overridden at key k
With(f, k, v) == [x \in (DOMAIN f) \cup {k} |-> IF x = k THEN v ELSE f[x]]

\* os.MkdirAll: nothing to do on a directory, ENOTDIR when p or an ancestor is
\* a file, else every missing directory down to p is made
OsMkdirAll(d, p) ==
    Bind(ExistingAnc(d, p), LAMBDA anc :
         IF IsFileAt(d, anc) THEN [d |-> d, err |-> ENOTDIR]
         ELSE Bind(AncOrSelf(p), LAMBDA dirs :
              [d |-> [names |-> [q \in (DOMAIN d.names) \cup dirs |->
                                    IF q \in DOMAIN d.names THEN d.names[q] ELSE 0],
                      data |-> d.data],
               err |-> ErrNone]))

\* os.Create = open(O_RDWR|O_CREATE|O_TRUNC): an existing file keeps its inode
\* and is truncated, a missing one gets a new inode
OsCreate(d, p) ==
    Bind(Dir(p), LAMBDA parent :
    Bind(LookupErr(d, parent), LAMBDA e :
         IF e # ErrNone THEN [d |-> d, err |-> e, ino |-> 0]
         ELSE IF ~IsDirAt(d, parent) THEN [d |-> d, err |-> ENOTDIR, ino |-> 0]
         ELSE IF IsDirAt(d, p) THEN [d |-> d, err |-> EISDIR, ino |-> 0]
         ELSE IF IsFileAt(d, p)
         THEN [d |-> [names |-> d.names, data |-> With(d.data, d.names[p], <<>>)],
               err |-> ErrNone, ino |-> d.names[p]]
         ELSE Bind(FreshIno(d), LAMBDA i :
              [d |-> [names |-> With(d.names, p, i), data |-> With(d.data, i, <<>>)],
               err |-> ErrNone, ino |-> i])))

\* the longer of two lengths
Max(a, b) == IF a > b THEN a ELSE b

\* write(2) of `bytes` at offset off (0-based) of inode ino; a gap is zeros
OsWriteAt(d, ino, off, bytes) ==
    Bind(d.data[ino], LAMBDA old :
         [names |-> d.names,
          data |-> With(d.data, ino,
                        [k \in 1..Max(Len(old), off + Len(bytes)) |->
                            IF k > off /\ k <= off + Len(bytes) THEN bytes[k - off]
                            ELSE IF k <= Len(old) THEN old[k]
                            ELSE 0])])

\* os.ReadFile of an existing regular file
OsReadFile(d, p) == d.data[d.names[p]]

\* os.WriteFile = open(O_WRONLY|O_CREATE|O_TRUNC), write, close
OsWriteFile(d, p, bytes) ==
    Bind(OsCreate(d, p), LAMBDA c :
         IF c.err # ErrNone THEN [d |-> d, err |-> c.err]
         ELSE [d |-> OsWriteAt(c.d, c.ino, 0, bytes), err |-> ErrNone])

\* os.Remove: unlink or rmdir
OsRemove(d, p) ==
    Bind(LookupErr(d, p), LAMBDA e :
         IF e # ErrNone THEN [d |-> d, err |-> e]
         ELSE IF IsDirAt(d, p) /\ Children(d, p) # {} THEN [d |-> d, err |-> ENOTEMPTY]
         ELSE [d |-> [names |-> [q \in (DOMAIN d.names) \ {p} |-> d.names[q]],
                      data |-> d.data],
               err |-> ErrNone])

\* os.RemoveAll: p and everything below it; no error when p does not exist
OsRemoveAll(d, p) ==
    [d |-> [names |-> [q \in {x \in DOMAIN d.names : x # p /\ ~IsUnder(x, p)} |->
                          d.names[q]],
            data |-> d.data],
     err |-> ErrNone]

\* the path q of the subtree at old, moved to new
Moved(q, old, new) == new \o SubSeq(q, Len(old) + 1, Len(q))

\* the names after the subtree at old has moved to new, replacing what was there
RenamedNames(d, old, new) ==
    Bind({q \in DOMAIN d.names : q # old /\ ~IsUnder(q, old) /\ q # new}, LAMBDA stay :
    Bind({q \in DOMAIN d.names : q = old \/ IsUnder(q, old)}, LAMBDA move :
         [q \in stay \cup {Moved(m, old, new) : m \in move} |->
             IF q \in stay THEN d.names[q] ELSE d.names[Moved(q, new, old)]]))

\* os.Rename = rename(2)
OsRename(d, old, new) ==
    Bind(LookupErr(d, old), LAMBDA eo :
    Bind(Dir(new), LAMBDA parent :
    Bind(LookupErr(d, parent), LAMBDA ep :
         IF eo # ErrNone THEN [d |-> d, err |-> eo]
         ELSE IF ep # ErrNone THEN [d |-> d, err |-> ep]
         ELSE IF ~IsDirAt(d, parent) THEN [d |-> d, err |-> ENOTDIR]
         ELSE IF old = new THEN [d |-> d, err |-> ErrNone]
         ELSE IF IsUnder(new, old) THEN [d |-> d, err |-> EINVAL]
         ELSE IF IsDirAt(d, old) /\ IsFileAt(d, new) THEN [d |-> d, err |-> ENOTDIR]
         ELSE IF IsFileAt(d, old) /\ IsDirAt(d, new) THEN [d |-> d, err |-> EISDIR]
         ELSE IF IsDirAt(d, new) /\ Children(d, new) # {} THEN [d |-> d, err |-> ENOTEMPTY]
         ELSE [d |-> [names |-> RenamedNames(d, old, new), data |-> d.data],
               err |-> ErrNone])))

\* ------------------------------------------------------------ file service

\* The result of a file service call: the tree afterwards, the error, the OS
\* calls made in order, and what the call returns (bytes, entries, kind).
Res(d, err, sys) ==
    [d |-> d, err |-> err, sys |-> sys, bytes |-> <<>>, entries |-> {}, kind |-> "none"]

\* an OS error as the service returns it after its IsNotExist test
NotFoundOr(e) == IF IsNotExist(e) THEN ErrNotFound ELSE e

KindAt(d, p) == IF IsDirAt(d, p) THEN "directory" ELSE "file"

\* LocalFileServiceImpl.Stat
Stat(root, d, rel) ==
    Bind(resolve(root, rel), LAMBDA r :
         IF r.err # ErrNone THEN Res(d, r.err, <<>>)
         ELSE Bind(OsStat(d, r.abs), LAMBDA e :
              IF e # ErrNone THEN Res(d, NotFoundOr(e), <<"Stat">>)
              ELSE [Res(d, ErrNone, <<"Stat">>) EXCEPT !.kind = KindAt(d, r.abs)]))

\* LocalFileServiceImpl.List
List(root, d, rel) ==
    Bind(resolve(root, rel), LAMBDA r :
         IF r.err # ErrNone THEN Res(d, r.err, <<>>)
         ELSE Bind(OsStat(d, r.abs), LAMBDA e :
              IF e # ErrNone THEN Res(d, NotFoundOr(e), <<"Stat">>)
              ELSE IF ~IsDirAt(d, r.abs) THEN Res(d, ErrNotDirectory, <<"Stat">>)
              ELSE [Res(d, ErrNone, <<"Stat", "ReadDir">>) EXCEPT
                       !.entries = {Base(q) : q \in Children(d, r.abs)},
                       !.kind = "directory"]))

\* LocalFileServiceImpl.ReadFile (Open makes the same checks)
ReadFile(root, d, rel) ==
    Bind(resolve(root, rel), LAMBDA r :
         IF r.err # ErrNone THEN Res(d, r.err, <<>>)
         ELSE Bind(OsStat(d, r.abs), LAMBDA e :
              IF e # ErrNone THEN Res(d, NotFoundOr(e), <<"Stat">>)
              ELSE IF IsDirAt(d, r.abs) THEN Res(d, ErrIsDirectory, <<"Stat">>)
              ELSE [Res(d, ErrNone, <<"Stat", "ReadFile">>) EXCEPT
                       !.bytes = OsReadFile(d, r.abs), !.kind = "file"]))

\* the end of WriteFile: os.WriteFile on the tree m
WriteFileData(m, abs, bytes, sys) ==
    Bind(OsWriteFile(m, abs, bytes), LAMBDA w :
         Res(w.d, w.err, Append(sys, "WriteFile")))

\* a WriteFile without the existence test of create=false
WriteFileAlways(root, d, rel, bytes, create) ==
    Bind(resolve(root, rel), LAMBDA r :
         IF r.err # ErrNone THEN Res(d, r.err, <<>>)
         ELSE Bind(Dir(r.abs), LAMBDA parent :
              Bind(OsMkdirAll(d, parent), LAMBDA m :
              IF m.err # ErrNone THEN Res(m.d, m.err, <<"MkdirAll">>)
              ELSE WriteFileData(m.d, r.abs, bytes, <<"MkdirAll">>))))

\* LocalFileServiceImpl.WriteFile: the parent directories are made before the
\* existence test of create=false
WriteFile(root, d, rel, bytes, create) ==
    Bind(resolve(root, rel), LAMBDA r :
         IF r.err # ErrNone THEN Res(d, r.err, <<>>)
         ELSE Bind(Dir(r.abs), LAMBDA parent :
              Bind(OsMkdirAll(d, parent), LAMBDA m :
              IF m.err # ErrNone THEN Res(m.d, m.err, <<"MkdirAll">>)
              ELSE IF create THEN WriteFileData(m.d, r.abs, bytes, <<"MkdirAll">>)
              ELSE Bind(OsStat(m.d, r.abs), LAMBDA e :
                   IF e # ErrNone THEN Res(m.d, NotFoundOr(e), <<"MkdirAll", "Stat">>)
                   ELSE WriteFileData(m.d, r.abs, bytes, <<"MkdirAll", "Stat">>)))))

\* the end of Delete: os.Remove
DeleteNode(d, abs, sys) ==
    Bind(OsRemove(d, abs), LAMBDA rm : Res(rm.d, rm.err, Append(sys, "Remove")))

\* Delete without the emptiness test, removing whatever is there.
DeleteAnyway(root, d, rel) ==
    Bind(resolve(root, rel), LAMBDA r :
         IF r.err # ErrNone THEN Res(d, r.err, <<>>)
         ELSE Bind(OsStat(d, r.abs), LAMBDA e :
              IF e # ErrNone THEN Res(d, NotFoundOr(e), <<"Stat">>)
              ELSE Bind(OsRemoveAll(d, r.abs), LAMBDA rm :
                   Res(rm.d, rm.err, <<"Stat", "RemoveAll">>))))

\* LocalFileServiceImpl.Delete
Delete(root, d, rel) ==
    Bind(resolve(root, rel), LAMBDA r :
         IF r.err # ErrNone THEN Res(d, r.err, <<>>)
         ELSE Bind(OsStat(d, r.abs), LAMBDA e :
              IF e # ErrNone THEN Res(d, NotFoundOr(e), <<"Stat">>)
              ELSE IF ~IsDirAt(d, r.abs) THEN DeleteNode(d, r.abs, <<"Stat">>)
              ELSE IF Children(d, r.abs) # {}
              THEN Res(d, ErrDirNotEmpty, <<"Stat", "Open", "Readdirnames">>)
              ELSE DeleteNode(d, r.abs, <<"Stat", "Open", "Readdirnames">>)))

\* LocalFileServiceImpl.DeleteRecursive
DeleteRecursive(root, d, rel) ==
    Bind(resolve(root, rel), LAMBDA r :
         IF r.err # ErrNone THEN Res(d, r.err, <<>>)
         ELSE Bind(OsStat(d, r.abs), LAMBDA e :
              IF e # ErrNone THEN Res(d, NotFoundOr(e), <<"Stat">>)
              ELSE Bind(OsRemoveAll(d, r.abs), LAMBDA rm :
                   Res(rm.d, rm.err, <<"Stat", "RemoveAll">>))))

\* LocalFileServiceImpl.MkdirAll
MkdirAll(root, d, rel) ==
    Bind(resolve(root, rel), LAMBDA r :
         IF r.err # ErrNone THEN Res(d, r.err, <<>>)
         ELSE Bind(OsMkdirAll(d, r.abs), LAMBDA m : Res(m.d, m.err, <<"MkdirAll">>)))

\* the end of Rename: os.Rename
RenameNode(d, src, dst, sys) ==
    Bind(OsRename(d, src, dst), LAMBDA mv : Res(mv.d, mv.err, Append(sys, "Rename")))

\* Rename without the existence test of the destination.
RenameOverwriting(root, d, relPath, newPath, overwrite) ==
    IF IsBlank(newPath) THEN Res(d, ErrMissingNewName, <<>>)
    ELSE Bind(resolve(root, relPath), LAMBDA src :
         IF src.err # ErrNone THEN Res(d, src.err, <<>>)
         ELSE Bind(OsStat(d, src.abs), LAMBDA es :
              IF es # ErrNone THEN Res(d, NotFoundOr(es), <<"Stat">>)
              ELSE Bind(resolve(root, newPath), LAMBDA dst :
                   IF dst.err # ErrNone THEN Res(d, dst.err, <<"Stat">>)
                   ELSE RenameNode(d, src.abs, dst.abs, <<"Stat">>))))

\* LocalFileServiceImpl.Rename: the source is resolved and stat'ed before the
\* destination is resolved
Rename(root, d, relPath, newPath, overwrite) ==
    IF IsBlank(newPath) THEN Res(d, ErrMissingNewName, <<>>)
    ELSE Bind(resolve(root, relPath), LAMBDA src :
         IF src.err # ErrNone THEN Res(d, src.err, <<>>)
         ELSE Bind(OsStat(d, src.abs), LAMBDA es :
              IF es # ErrNone THEN Res(d, NotFoundOr(es), <<"Stat">>)
              ELSE Bind(resolve(root, newPath), LAMBDA dst :
                   IF dst.err # ErrNone THEN Res(d, dst.err, <<"Stat">>)
                   ELSE IF overwrite THEN RenameNode(d, src.abs, dst.abs, <<"Stat">>)
                   ELSE IF OsStat(d, dst.abs) = ErrNone
                   THEN Res(d, ErrAlreadyExists, <<"Stat", "Stat">>)
                   ELSE RenameNode(d, src.abs, dst.abs, <<"Stat", "Stat">>))))

\* filepath.Ext: the suffix of the last element from its last dot
RECURSIVE LastDot(_, _)
LastDot(s, i) ==
    IF i = 0 THEN 0
    ELSE IF s[i] = SEP THEN 0
    ELSE IF s[i] = DOT THEN i
    ELSE LastDot(s, i - 1)

Ext(p) ==
    Bind(LastDot(p, Len(p)), LAMBDA i :
         IF i = 0 THEN <<>> ELSE SubSeq(p, i, Len(p)))

\* mime.TypeByExtension on the extensions of the model
TypeByExtension(ext) ==
    IF ext = <<DOT, "t", "x", "t">> THEN "text/plain; charset=utf-8" ELSE ""

\* LocalFileServiceImpl.DetectMIMEType: the file is opened only when the
\* extension decides nothing
DetectMIMEType(root, d, rel) ==
    Bind(resolve(root, rel), LAMBDA r :
         IF r.err # ErrNone THEN Res(d, r.err, <<>>)
         ELSE Bind(TypeByExtension(Ext(r.abs)), LAMBDA mt :
              IF mt # "" THEN [Res(d, ErrNone, <<>>) EXCEPT !.kind = mt]
              ELSE Bind(OsStat(d, r.abs), LAMBDA e :
                   IF e # ErrNone THEN Res(d, e, <<"Open">>)
                   ELSE [Res(d, ErrNone, <<"Open", "Read">>) EXCEPT !.kind = "sniffed"])))

\* ------------------------------------------------------ SaveStream, by step

PartSuffix == <<DOT, "p", "a", "r", "t">>

\* bytes io.Copy hands to one Write call
ChunkLen == 1

\* the injected failure of a call: none, the source reader or the write fails
\* during the copy (after the first chunk, if there is one), or Close fails
Faults == {"none", "copy", "close"}

\* what is at p: absent, a directory, or a file with its bytes
NodeAt(d, p) ==
    IF ~Exists(d, p) THEN <<"absent">>
    ELSE IF IsDirAt(d, p) THEN <<"dir">>
    ELSE <<"file", d.data[d.names[p]]>>

\* a call that has not started
IdleCall ==
    [pc |-> "idle", rel |-> <<>>, content |-> <<>>, overwrite |-> FALSE,
     fault |-> "none", abs |-> <<>>, tmp |-> <<>>, ino |-> 0, off |-> 0,
     copyErr |-> ErrNone, closeErr |-> ErrNone, err |-> ErrNone, sys |-> <<>>,
     pre |-> <<"absent">>]

\* SaveStream entered: resolve(rel); pre is what was at the path on entry
SaveStreamBegin(root, d, rel, content, overwrite, fault) ==
    Bind(resolve(root, rel), LAMBDA r :
    Bind([IdleCall EXCEPT !.rel = rel, !.content = content,
                          !.overwrite = overwrite, !.fault = fault], LAMBDA c :
         IF r.err # ErrNone THEN [c EXCEPT !.pc = "done", !.err = r.err]
         ELSE [c EXCEPT !.pc = "mkdir", !.abs = r.abs, !.tmp = r.abs \o PartSuffix,
                        !.pre = NodeAt(d, r.abs)]))

\* the next chunk of the copy
Chunk(c) ==
    SubSeq(c.content, c.off + 1,
           IF c.off + ChunkLen > Len(c.content) THEN Len(c.content)
           ELSE c.off + ChunkLen)

\* the copy fails at this point
CopyFails(c) ==
    /\ c.fault = "copy"
    /\ c.off >= ChunkLen \/ c.off = Len(c.content)

\* os.MkdirAll(filepath.Dir(abs))
StepMkdir(d, c) ==
    Bind(Dir(c.abs), LAMBDA parent :
    Bind(OsMkdirAll(d, parent), LAMBDA m :
         IF m.err # ErrNone
         THEN [d |-> m.d, c |-> [c EXCEPT !.pc = "done", !.err = m.err,
                                          !.sys = Append(c.sys, "MkdirAll")]]
         ELSE [d |-> m.d, c |-> [c EXCEPT !.pc = IF c.overwrite THEN "create" ELSE "stat",
                                          !.sys = Append(c.sys, "MkdirAll")]]))

\* The existence test made after the temp file was opened.
StepStatLate(d, c) ==
    IF OsStat(d, c.abs) = ErrNone
    THEN Bind(OsCreate(d, c.tmp), LAMBDA cr :
         [d |-> cr.d, c |-> [c EXCEPT !.pc = "done", !.err = ErrAlreadyExists,
                                      !.sys = c.sys \o <<"Create", "Stat">>]])
    ELSE [d |-> d, c |-> [c EXCEPT !.pc = "create", !.sys = Append(c.sys, "Stat")]]

\* if !overwrite: os.Stat(abs), ErrAlreadyExists when it succeeds
StepStat(d, c) ==
    IF OsStat(d, c.abs) = ErrNone
    THEN [d |-> d, c |-> [c EXCEPT !.pc = "done", !.err = ErrAlreadyExists,
                                   !.sys = Append(c.sys, "Stat")]]
    ELSE [d |-> d, c |-> [c EXCEPT !.pc = "create", !.sys = Append(c.sys, "Stat")]]

\* The destination itself created and written in place, no temp file.
StepCreateInPlace(d, c) ==
    Bind(OsCreate(d, c.abs), LAMBDA cr :
         IF cr.err # ErrNone
         THEN [d |-> d, c |-> [c EXCEPT !.pc = "done", !.err = cr.err,
                                        !.sys = Append(c.sys, "Create")]]
         ELSE [d |-> cr.d, c |-> [c EXCEPT !.pc = "copy", !.ino = cr.ino, !.off = 0,
                                           !.tmp = c.abs,
                                           !.sys = Append(c.sys, "Create")]])

\* os.Create(tmp)
StepCreate(d, c) ==
    Bind(OsCreate(d, c.tmp), LAMBDA cr :
         IF cr.err # ErrNone
         THEN [d |-> d, c |-> [c EXCEPT !.pc = "done", !.err = cr.err,
                                        !.sys = Append(c.sys, "Create")]]
         ELSE [d |-> cr.d, c |-> [c EXCEPT !.pc = "copy", !.ino = cr.ino, !.off = 0,
                                           !.sys = Append(c.sys, "Create")]])

\* A copy that makes one Write call and takes the stream for finished.
StepCopyOnce(d, c) ==
    IF CopyFails(c) THEN [d |-> d, c |-> [c EXCEPT !.pc = "close", !.copyErr = EIO]]
    ELSE IF c.off >= Len(c.content) THEN [d |-> d, c |-> [c EXCEPT !.pc = "close"]]
    ELSE Bind(Chunk(c), LAMBDA ch :
         [d |-> OsWriteAt(d, c.ino, c.off, ch),
          c |-> [c EXCEPT !.off = c.off + Len(ch), !.pc = "close",
                          !.sys = Append(c.sys, "Write")]])

\* io.Copy(f, r): one chunk is written, or the copy ends (with or without error)
StepCopy(d, c) ==
    IF CopyFails(c) THEN [d |-> d, c |-> [c EXCEPT !.pc = "close", !.copyErr = EIO]]
    ELSE IF c.off >= Len(c.content) THEN [d |-> d, c |-> [c EXCEPT !.pc = "close"]]
    ELSE Bind(Chunk(c), LAMBDA ch :
         [d |-> OsWriteAt(d, c.ino, c.off, ch),
          c |-> [c EXCEPT !.off = c.off + Len(ch), !.sys = Append(c.sys, "Write")]])

\* Close with copyErr and closeErr never tested: the rename always follows.
StepCloseUnchecked(d, c) ==
    Bind(IF c.fault = "close" THEN EIO ELSE ErrNone, LAMBDA ce :
         [d |-> d,
          c |-> [c EXCEPT !.closeErr = ce, !.ino = 0, !.sys = Append(c.sys, "Close"),
                          !.pc = "rename"]])

\* f.Close(), then the tests of copyErr and closeErr
StepClose(d, c) ==
    Bind(IF c.fault = "close" THEN EIO ELSE ErrNone, LAMBDA ce :
         [d |-> d,
          c |-> [c EXCEPT !.closeErr = ce, !.ino = 0, !.sys = Append(c.sys, "Close"),
                          !.pc = IF c.copyErr # ErrNone \/ ce # ErrNone
                                 THEN "remove" ELSE "rename"]])

\* The error of the copy or close returned with the temp file left in place.
StepRemoveForgotten(d, c) ==
    [d |-> d,
     c |-> [c EXCEPT !.pc = "done",
                     !.err = IF c.copyErr # ErrNone THEN c.copyErr ELSE c.closeErr]]

\* os.Remove(tmp) after a failed copy or close; its own error is dropped
StepRemove(d, c) ==
    Bind(OsRemove(d, c.tmp), LAMBDA rm :
         [d |-> rm.d,
          c |-> [c EXCEPT !.pc = "done", !.sys = Append(c.sys, "Remove"),
                          !.err = IF c.copyErr # ErrNone THEN c.copyErr ELSE c.closeErr]])

\* return os.Rename(tmp, abs)
StepRename(d, c) ==
    Bind(OsRename(d, c.tmp, c.abs), LAMBDA rn :
         [d |-> rn.d, c |-> [c EXCEPT !.pc = "done", !.err = rn.err,
                                      !.sys = Append(c.sys, "Rename")]])

\* One step of SaveStream for the call c on the tree d: [d, c] afterwards.
SaveStreamStep(d, c) ==
    CASE c.pc = "mkdir" -> StepMkdir(d, c)
      [] c.pc = "stat" -> StepStat(d, c)
      [] c.pc = "create" -> StepCreate(d, c)
      [] c.pc = "copy" -> StepCopy(d, c)
      [] c.pc = "close" -> StepClose(d, c)
      [] c.pc = "remove" -> StepRemove(d, c)
      [] c.pc = "rename" -> StepRename(d, c)

\* the steps of one call run to its return, nothing interleaved
RECURSIVE SaveStreamRun(_, _)
SaveStreamRun(d, c) ==
    IF c.pc = "done" THEN [d |-> d, c |-> c]
    ELSE Bind(SaveStreamStep(d, c), LAMBDA n : SaveStreamRun(n.d, n.c))

\* LocalFileServiceImpl.SaveStream as one call
SaveStream(root, d, rel, content, overwrite, fault) ==
    Bind(SaveStreamBegin(root, d, rel, content, overwrite, fault), LAMBDA c0 :
    Bind(SaveStreamRun(d, c0), LAMBDA run :
         Res(run.d, run.c.err, run.c.sys)))

\* ----------------------------------------------------------- HTTP handlers

PCT == "%"

\* the escapes url.PathUnescape decodes in the model: %2e %2E %2f %2F %25
HexValue(a, b) ==
    IF a = "2" /\ b \in {"e", "E"} THEN DOT
    ELSE IF a = "2" /\ b \in {"f", "F"} THEN SEP
    ELSE IF a = "2" /\ b = "5" THEN PCT
    ELSE ""

\* url.PathUnescape: [ok, val]; a "%" not followed by two hex digits is an error
RECURSIVE Unescape(_, _, _)
Unescape(s, i, out) ==
    IF i > Len(s) THEN [ok |-> TRUE, val |-> out]
    ELSE IF s[i] # PCT THEN Unescape(s, i + 1, Append(out, s[i]))
    ELSE IF i + 2 > Len(s) \/ HexValue(s[i + 1], s[i + 2]) = ""
    THEN [ok |-> FALSE, val |-> s]
    ELSE Unescape(s, i + 3, Append(out, HexValue(s[i + 1], s[i + 2])))

PathUnescape(s) == Unescape(s, 1, <<>>)

\* FSHandler.pathFromParam: the wildcard of the route, unescaped when it can be,
\* without one leading separator
pathFromParam(raw) ==
    IF raw = <<>> \/ raw = <<SEP>> THEN <<>>
    ELSE Bind(PathUnescape(raw), LAMBDA up :
         TrimPrefix(IF up.ok THEN up.val ELSE raw, <<SEP>>))

StatusOK == 200
StatusCreated == 201
StatusBadRequest == 400
StatusForbidden == 403
StatusNotFound == 404
StatusConflict == 409
StatusInternalServerError == 500

\* strings.Contains(err.Error(), "not found"): only ErrNotFound ("path not found")
SaysNotFound(err) == err = ErrNotFound

\* strings.Contains(err.Error(), "directory not empty"): ErrDirNotEmpty and the
\* ENOTEMPTY of the OS
SaysDirNotEmpty(err) == err \in {ErrDirNotEmpty, ENOTEMPTY}

\* mapLocalFileServiceError: the status for a file service error
mapLocalFileServiceError(err) ==
    IF IsNotExist(err) \/ SaysNotFound(err) THEN StatusNotFound
    ELSE IF IsPermission(err) THEN StatusForbidden
    ELSE StatusInternalServerError

\* A response: the tree afterwards, the status, the bytes of a file sent as
\* the body, the type of the metadata, the path of a created folder and the
\* names of the uploaded files in a JSON body, and the file service error
\* behind an error status.
Resp(d, status, err) ==
    [d |-> d, status |-> status, err |-> err, bytes |-> <<>>, kind |-> "none",
     path |-> <<>>, uploaded |-> <<>>]

\* the response to a file service result r: ok when it has no error
Reply(r, ok) ==
    IF r.err # ErrNone THEN Resp(r.d, mapLocalFileServiceError(r.err), r.err)
    ELSE Resp(r.d, ok, ErrNone)

\* LocalFileService.RenameDir(old, new) of the handlers' interface: a rename
\* that does not overwrite
RenameDir(root, d, oldRel, newRel) == Rename(root, d, oldRel, newRel, FALSE)

\* FSHandler.Get
Get(root, d, raw, stat) ==
    Bind(pathFromParam(raw), LAMBDA rel :
    Bind(Stat(root, d, rel), LAMBDA st :
         IF st.err # ErrNone THEN Reply(st, StatusOK)
         ELSE IF stat THEN [Resp(d, StatusOK, ErrNone) EXCEPT !.kind = st.kind]
         ELSE IF st.kind = "directory"
         THEN Bind(List(root, d, rel), LAMBDA ls : Reply(ls, StatusOK))
         ELSE Bind(ReadFile(root, d, rel), LAMBDA rf :
              IF rf.err # ErrNone THEN Reply(rf, StatusOK)
              ELSE [Resp(d, StatusOK, ErrNone) EXCEPT !.bytes = rf.bytes])))

\* the existence test of the POST handlers when overwrite is false: the
\* handler goes on (go), or answers with resp
ExistenceTest(root, d, destRel) ==
    Bind(Stat(root, d, destRel), LAMBDA st :
         IF st.err = ErrNone THEN [go |-> FALSE, resp |-> Resp(d, StatusConflict, ErrNone)]
         ELSE IF ~IsNotExist(st.err) THEN [go |-> FALSE, resp |-> Reply(st, StatusOK)]
         ELSE [go |-> TRUE, resp |-> Resp(d, StatusOK, ErrNone)])

\* no existence test was made
NoTest(d) == [go |-> TRUE, resp |-> Resp(d, StatusOK, ErrNone)]

\* FSHandler.handleUploadFile: the first part of field "file" is saved under
\* the base name of its file name
handleUploadFile(root, d, rel, files, overwrite, fault) ==
    IF files = <<>> THEN Resp(d, StatusBadRequest, ErrNone)
    ELSE Bind(Join(rel, Base(files[1].filename)), LAMBDA destRel :
         Bind(IF overwrite THEN NoTest(d) ELSE ExistenceTest(root, d, destRel),
              LAMBDA t :
              IF ~t.go THEN t.resp
              ELSE Bind(SaveStream(root, d, destRel, files[1].bytes, overwrite, fault),
                        LAMBDA sv : Reply(sv, StatusCreated))))

\* FSHandler.handleCreateDirectories
handleCreateDirectories(root, d, parentPath, path) ==
    Bind(Join(parentPath, path), LAMBDA fullpath :
    Bind(ExistenceTest(root, d, fullpath), LAMBDA t :
         IF ~t.go THEN t.resp
         ELSE Bind(MkdirAll(root, d, fullpath), LAMBDA mk : Reply(mk, StatusCreated))))

\* FSHandler.handlerCreateFile
handlerCreateFile(root, d, rel, name, overwrite) ==
    Bind(Join(rel, name), LAMBDA destRel :
    Bind(IF overwrite THEN NoTest(d) ELSE ExistenceTest(root, d, destRel),
         LAMBDA t :
         IF ~t.go THEN t.resp
         ELSE Bind(WriteFile(root, d, destRel, <<>>, TRUE), LAMBDA wf :
                   Reply(wf, StatusCreated))))

\* FSHandler.Post: ct is the content type; a multipart body carries files and
\* the form value overwrite, a JSON body is [ok, path, type, overwrite]
Post(root, d, raw, ct, files, json, overwrite, fault) ==
    Bind(pathFromParam(raw), LAMBDA rel :
    Bind(Stat(root, d, rel), LAMBDA st :
         IF st.err # ErrNone /\ IsNotExist(st.err) THEN Resp(d, StatusNotFound, st.err)
         ELSE IF st.err # ErrNone THEN Reply(st, StatusOK)
         ELSE IF st.kind # "directory" THEN Resp(d, StatusBadRequest, ErrNone)
         ELSE IF ct = "multipart/form-data"
         THEN handleUploadFile(root, d, rel, files, overwrite, fault)
         ELSE IF ~json.ok THEN Resp(d, StatusBadRequest, ErrNone)
         ELSE IF json.type = "directory"
         THEN handleCreateDirectories(root, d, rel, json.path)
         ELSE IF json.type = "file"
         THEN handlerCreateFile(root, d, rel, json.path, json.overwrite)
         ELSE Resp(d, StatusBadRequest, ErrNone)))

\* FSHandler.Put: the body is saved as a stream at the path
Put(root, d, raw, ct, body, overwrite, fault) ==
    IF ct # "application/octet-stream" THEN Resp(d, StatusBadRequest, ErrNone)
    ELSE Bind(pathFromParam(raw), LAMBDA rel :
         Bind(SaveStream(root, d, rel, body, overwrite, fault), LAMBDA sv :
              Reply(sv, StatusOK)))

\* FSHandler.Patch: body {"name": newName}; jsonOk is the result of BodyParser
Patch(root, d, raw, jsonOk, newName) ==
    IF ~jsonOk THEN Resp(d, StatusBadRequest, ErrNone)
    ELSE IF IsBlank(newName) THEN Resp(d, StatusBadRequest, ErrNone)
    ELSE Bind(pathFromParam(raw), LAMBDA rel :
         Bind(RenameDir(root, d, rel, newName), LAMBDA rn : Reply(rn, StatusOK)))

\* FSHandler.Delete
HandleDelete(root, d, raw, recursive) ==
    Bind(pathFromParam(raw), LAMBDA rel :
         IF recursive
         THEN Bind(DeleteRecursive(root, d, rel), LAMBDA dr : Reply(dr, StatusOK))
         ELSE Bind(Delete(root, d, rel), LAMBDA dl :
              IF dl.err # ErrNone /\ SaysDirNotEmpty(dl.err)
              THEN Resp(dl.d, StatusBadRequest, dl.err)
              ELSE Reply(dl, StatusOK)))

\* ------------------------- HTTP handlers with createSubFolder (build.sh, 2nd)

\* FSHandler.pathFromCtx: as pathFromParam, of the later handler revisions
pathFromCtx(raw) ==
    IF raw = <<>> \/ raw = <<SEP>> THEN <<>>
    ELSE Bind(PathUnescape(raw), LAMBDA up :
         TrimPrefix(IF up.ok THEN up.val ELSE raw, <<SEP>>))

\* FSHandler.uploadFile: the first part of field "files" (or "file") is saved
\* under the base name of its file name
uploadFile(root, d, rel, files, overwrite, fault) ==
    IF files = <<>> THEN Resp(d, StatusBadRequest, ErrNone)
    ELSE Bind(Join(rel, Base(files[1].filename)), LAMBDA destRel :
         Bind(IF overwrite THEN NoTest(d) ELSE ExistenceTest(root, d, destRel),
              LAMBDA t :
              IF ~t.go THEN t.resp
              ELSE Bind(SaveStream(root, d, destRel, files[1].bytes, overwrite, fault),
                        LAMBDA sv :
                        IF sv.err # ErrNone THEN Reply(sv, StatusCreated)
                        ELSE [Resp(sv.d, StatusCreated, ErrNone) EXCEPT
                                  !.uploaded = <<Base(files[1].filename)>>])))

\* FSHandler.createSubFolder: 409 when the folder is there, the mapped status
\* of any Stat error that is not an os "not exist", else MkdirAll and 201 with
\* the path
createSubFolder(root, d, rel, name) ==
    Bind(Join(rel, name), LAMBDA newRel :
    Bind(Stat(root, d, newRel), LAMBDA st :
         IF st.err = ErrNone THEN Resp(d, StatusConflict, ErrNone)
         ELSE IF ~IsNotExist(st.err) THEN Reply(st, StatusOK)
         ELSE Bind(MkdirAll(root, d, newRel), LAMBDA mk :
              IF mk.err # ErrNone THEN Reply(mk, StatusCreated)
              ELSE [Resp(mk.d, StatusCreated, ErrNone) EXCEPT !.path = newRel])))

\* strings.TrimSpace on the names of the model: a name is blank or has no
\* space at its ends
TrimSpace(s) == IF IsBlank(s) THEN <<>> ELSE s

\* FSHandler.Post of the revision with createSubFolder: json is [ok, name]
PostSubFolder(root, d, raw, ct, files, json, overwrite, fault) ==
    Bind(pathFromCtx(raw), LAMBDA rel :
    Bind(Stat(root, d, rel), LAMBDA st :
         IF st.err # ErrNone /\ IsNotExist(st.err) THEN Resp(d, StatusNotFound, st.err)
         ELSE IF st.err # ErrNone THEN Reply(st, StatusOK)
         ELSE IF st.kind # "directory" THEN Resp(d, StatusBadRequest, ErrNone)
         ELSE IF ct = "multipart/form-data"
         THEN uploadFile(root, d, rel, files, overwrite, fault)
         ELSE IF json.ok /\ TrimSpace(json.name) # <<>>
         THEN createSubFolder(root, d, rel, TrimSpace(json.name))
         ELSE Resp(d, StatusBadRequest, ErrNone)))

\* --------------------------------- HTTP handlers of server/fs_handler.go

\* the alphabet of base64.StdEncoding and its padding
B64 ==
    << "A", "B", "C", "D", "E", "F", "G", "H", "I", "J", "K", "L", "M", "N", "O", "P",
       "Q", "R", "S", "T", "U", "V", "W", "X", "Y", "Z", "a", "b", "c", "d", "e", "f",
       "g", "h", "i", "j", "k", "l", "m", "n", "o", "p", "q", "r", "s", "t", "u", "v",
       "w", "x", "y", "z", "0", "1", "2", "3", "4", "5", "6", "7", "8", "9", "+", "/" >>

PAD == "="

\* base64.StdEncoding.EncodeToString, from byte i of data: three bytes give
\* four digits, a rest of one or two bytes is padded
RECURSIVE EncodeFrom(_, _)
EncodeFrom(data, i) ==
    IF i > Len(data) THEN <<>>
    ELSE IF i = Len(data)
    THEN << B64[(data[i] \div 4) + 1], B64[((data[i] % 4) * 16) + 1], PAD, PAD >>
    ELSE IF i + 1 = Len(data)
    THEN << B64[(data[i] \div 4) + 1],
            B64[((data[i] % 4) * 16) + (data[i + 1] \div 16) + 1],
            B64[((data[i + 1] % 16) * 4) + 1], PAD >>
    ELSE << B64[(data[i] \div 4) + 1],
            B64[((data[i] % 4) * 16) + (data[i + 1] \div 16) + 1],
            B64[((data[i + 1] % 16) * 4) + (data[i + 2] \div 64) + 1],
            B64[(data[i + 2] % 64) + 1] >> \o EncodeFrom(data, i + 3)

EncodeToString(data) == EncodeFrom(data, 1)

\* the value of a base64 digit, -1 for any other character
DigitValue(c) ==
    IF \E k \in 1..Len(B64) : B64[k] = c
    THEN (CHOOSE k \in 1..Len(B64) : B64[k] = c) - 1
    ELSE -1

Corrupt == [ok |-> FALSE, val |-> <<>>]

\* base64.StdEncoding.DecodeString, from character i of s: [ok, val]; the text
\* is made of groups of four digits, the last of which may end in padding
RECURSIVE DecodeFrom(_, _, _)
DecodeFrom(s, i, out) ==
    IF i > Len(s) THEN [ok |-> TRUE, val |-> out]
    ELSE IF i + 3 > Len(s) THEN Corrupt
    ELSE Bind(DigitValue(s[i]), LAMBDA a :
         Bind(DigitValue(s[i + 1]), LAMBDA b :
         Bind(DigitValue(s[i + 2]), LAMBDA c :
         Bind(DigitValue(s[i + 3]), LAMBDA e :
              IF a < 0 \/ b < 0 THEN Corrupt
              ELSE IF s[i + 2] = PAD
              THEN IF s[i + 3] = PAD /\ i + 3 = Len(s)
                   THEN [ok |-> TRUE, val |-> Append(out, (a * 4) + (b \div 16))]
                   ELSE Corrupt
              ELSE IF c < 0 THEN Corrupt
              ELSE IF s[i + 3] = PAD
              THEN IF i + 3 = Len(s)
                   THEN [ok |-> TRUE,
                         val |-> out \o << (a * 4) + (b \div 16),
                                           ((b % 16) * 16) + (c \div 4) >>]
                   ELSE Corrupt
              ELSE IF e < 0 THEN Corrupt
              ELSE DecodeFrom(s, i + 4,
                              out \o << (a * 4) + (b \div 16),
                                        ((b % 16) * 16) + (c \div 4),
                                        ((c % 4) * 64) + e >>)))))

DecodeString(s) == DecodeFrom(s, 1, <<>>)

\* mapLocalFileServiceError of fs_handler.go: it tests os.IsNotExist and
\* os.IsPermission only
SrvMapLocalFileServiceError(err) ==
    IF IsNotExist(err) THEN StatusNotFound
    ELSE IF IsPermission(err) THEN StatusForbidden
    ELSE StatusInternalServerError

\* the response of fs_handler.go to a file service result r
SrvReply(r, ok) ==
    IF r.err # ErrNone THEN Resp(r.d, SrvMapLocalFileServiceError(r.err), r.err)
    ELSE Resp(r.d, ok, ErrNone)

\* badRequest
badRequest(d) == Resp(d, StatusBadRequest, ErrNone)

\* FSHandler.Get of fs_handler.go: a file is sent in base64
SrvGet(root, d, raw, stat) ==
    Bind(pathFromCtx(raw), LAMBDA rel :
    Bind(Stat(root, d, rel), LAMBDA st :
         IF st.err # ErrNone THEN SrvReply(st, StatusOK)
         ELSE IF stat THEN [Resp(d, StatusOK, ErrNone) EXCEPT !.kind = st.kind]
         ELSE IF st.kind = "directory"
         THEN Bind(List(root, d, rel), LAMBDA ls : SrvReply(ls, StatusOK))
         ELSE Bind(ReadFile(root, d, rel), LAMBDA rf :
              IF rf.err # ErrNone THEN SrvReply(rf, StatusOK)
              ELSE [Resp(d, StatusOK, ErrNone) EXCEPT
                        !.bytes = EncodeToString(rf.bytes)])))

\* the loop of FSHandler.Post over the parts of field "files", from part i:
\* each is saved under the base name of its file name; the first error ends
\* the request and leaves what was saved before
RECURSIVE SrvUpload(_, _, _, _, _, _, _)
SrvUpload(root, d, rel, files, i, overwrite, uploaded) ==
    IF i > Len(files)
    THEN [Resp(d, StatusCreated, ErrNone) EXCEPT !.uploaded = uploaded]
    ELSE Bind(Base(files[i].filename), LAMBDA name :
         Bind(IF rel = <<>> THEN name ELSE Join(rel, name), LAMBDA destRel :
         Bind(SaveStream(root, d, destRel, files[i].bytes, overwrite, files[i].fault),
              LAMBDA sv :
              IF sv.err # ErrNone THEN SrvReply(sv, StatusCreated)
              ELSE SrvUpload(root, sv.d, rel, files, i + 1, overwrite,
                             Append(uploaded, name)))))

\* the test of FSHandler.Post that a named target or parent is a directory:
\* [go, resp] as ExistenceTest
DirectoryTest(root, d, rel) ==
    IF rel = <<>> THEN NoTest(d)
    ELSE Bind(Stat(root, d, rel), LAMBDA st :
         IF st.err # ErrNone THEN [go |-> FALSE, resp |-> SrvReply(st, StatusOK)]
         ELSE IF st.kind # "directory" THEN [go |-> FALSE, resp |-> badRequest(d)]
         ELSE NoTest(d))

\* FSHandler.Post of fs_handler.go: a multipart body carries files, any other
\* body is the JSON [ok, name]
SrvPost(root, d, raw, ct, files, json, overwrite) ==
    Bind(pathFromCtx(raw), LAMBDA rel :
         IF ct = "multipart/form-data"
         THEN Bind(DirectoryTest(root, d, rel), LAMBDA t :
              IF ~t.go THEN t.resp
              ELSE IF files = <<>> THEN badRequest(d)
              ELSE SrvUpload(root, d, rel, files, 1, overwrite, <<>>))
         ELSE IF ~json.ok \/ TrimSpace(json.name) = <<>> THEN badRequest(d)
         ELSE Bind(IF rel = <<>> THEN json.name ELSE Join(rel, json.name),
                   LAMBDA newRel :
              Bind(DirectoryTest(root, d, rel), LAMBDA t :
                   IF ~t.go THEN t.resp
                   ELSE Bind(Stat(root, d, newRel), LAMBDA st :
                        IF st.err = ErrNone THEN Resp(d, StatusConflict, ErrNone)
                        ELSE Bind(MkdirAll(root, d, newRel), LAMBDA mk :
                             IF mk.err # ErrNone THEN SrvReply(mk, StatusCreated)
                             ELSE [Resp(mk.d, StatusCreated, ErrNone)
                                       EXCEPT !.path = newRel])))))

\* FSHandler.Put of fs_handler.go: a directory is renamed to the query's
\* new_name, a file gets the decoded body
SrvPut(root, d, raw, newName, body) ==
    Bind(pathFromCtx(raw), LAMBDA rel :
    Bind(Stat(root, d, rel), LAMBDA st :
         IF st.err # ErrNone THEN SrvReply(st, StatusOK)
         ELSE IF st.kind = "directory"
         THEN IF TrimSpace(newName) = <<>> THEN badRequest(d)
              ELSE Bind(RenameDir(root, d, rel, newName), LAMBDA rn :
                        SrvReply(rn, StatusOK))
         ELSE Bind(DecodeString(body), LAMBDA dec :
              IF ~dec.ok THEN badRequest(d)
              ELSE Bind(WriteFile(root, d, rel, dec.val, FALSE), LAMBDA wf :
                        SrvReply(wf, StatusOK)))))

\* a DELETE handler that leaves every error of Delete to the error mapping
SrvDeleteUnadvised(root, d, raw, recursive) ==
    Bind(pathFromCtx(raw), LAMBDA rel :
         IF recursive
         THEN Bind(DeleteRecursive(root, d, rel), LAMBDA dr : SrvReply(dr, StatusOK))
         ELSE Bind(Delete(root, d, rel), LAMBDA dl : SrvReply(dl, StatusOK)))

\* FSHandler.Delete of fs_handler.go
SrvDelete(root, d, raw, recursive) ==
    Bind(pathFromCtx(raw), LAMBDA rel :
         IF recursive
         THEN Bind(DeleteRecursive(root, d, rel), LAMBDA dr : SrvReply(dr, StatusOK))
         ELSE Bind(Delete(root, d, rel), LAMBDA dl :
              IF dl.err # ErrNone /\ SaysDirNotEmpty(dl.err)
              THEN Resp(dl.d, StatusBadRequest, dl.err)
              ELSE SrvReply(dl, StatusOK)))

\* ------------------------------------------------------------------- state

VARIABLES
    RootDir,   \* LocalFileServiceImpl.RootDir, fixed at construction
    fs,        \* the file tree of the host: [names, data]
    last,      \* the last completed file service call or HTTP request
    calls,     \* number of calls and requests started so far
    wr,        \* the SaveStream call each concurrent request is in
    rd,        \* a concurrent reader of one path: its descriptor and what it read
    crashed    \* the server process has crashed

vars == <<RootDir, fs, last, calls, wr, rd, crashed>>

\* ---------------------------------------------------------------- universe

pRoot == <<SEP, "r">>
pSibling == <<SEP, "r", "2">>
pSecret == <<SEP, "r", "2", SEP, "x">>
pA == <<SEP, "r", SEP, "a">>
pAB == <<SEP, "r", SEP, "a", SEP, "b">>
pE == <<SEP, "r", SEP, "e">>

\* the configured roots: the directory /r, written with and without a
\* trailing separator (NewLocalFileService stores the flag as given)
Roots == {pRoot, pRoot \o <<SEP>>}

\* bytes of the files that exist before the server starts
OldBytes == <<7>>
SecretBytes == <<9>>

\* the tree at start: /r holds the non-empty directory a with the file a/b and
\* the empty directory e; /r2 is a sibling of the root with the file /r2/x
InitTree ==
    [names |-> (RootPath :> 0) @@ (pRoot :> 0) @@ (pA :> 0) @@ (pAB :> 1)
               @@ (pE :> 0) @@ (pSibling :> 0) @@ (pSecret :> 2),
     data |-> (1 :> OldBytes) @@ (2 :> SecretBytes)]

\* the relative paths clients send
RelPaths ==
    { <<>>,                                          \* the root itself
      <<"a">>,                                       \* a non-empty directory
      <<"a", SEP, "b">>,                             \* a file
      <<"e">>,                                       \* an empty directory
      <<"n">>,                                       \* nothing there
      <<"n", SEP, "m">>,                             \* nothing there, no parent
      <<SEP, "a">>,                                  \* with a leading separator
      <<"a", SEP, "b", SEP, "c">>,                   \* below a file
      <<DOT, DOT, SEP, "r", "2", SEP, "x">>,         \* ../r2/x : the sibling
      <<"a", SEP, DOT, DOT, SEP, DOT, DOT>>,         \* a/../.. : the parent of root
      <<DOT, DOT, SEP, "r", SEP, "e">> }             \* ../r/e : out and back in

\* request bodies and stream contents: empty, or MaxLen equal bytes
Contents == {<<>>} \cup {[i \in 1..MaxLen |-> b] : b \in {1, 2}}

\* the record of a call: its inputs, what it returned, the OS calls it made and
\* the tree it started on
NoCall ==
    [op |-> "none", rel |-> <<>>, dst |-> <<>>, body |-> <<>>, flag |-> FALSE,
     fault |-> "none", err |-> ErrNone, sys |-> <<>>, bytes |-> <<>>,
     entries |-> {}, kind |-> "none", status |-> 0, abs |-> <<>>,
     path |-> <<>>, uploaded |-> <<>>, form |-> "", before |-> InitTree]

Reader0 == [pc |-> "idle", path |-> <<>>, ino |-> 0, seen |-> <<"none">>]

Init ==
    /\ RootDir \in Roots
    /\ fs = InitTree
    /\ last = NoCall
    /\ calls = 0
    /\ wr = [w \in {1, 2} |-> IdleCall]
    /\ rd = Reader0
    /\ crashed = FALSE

\* ------------------------------------------- file service calls, one by one

\* the call op(rel, ...) returned r
Returned(op, rel, dst, body, flag, fault, r) ==
    /\ calls' = calls + 1
    /\ fs' = Gc(r.d, {})
    /\ last' = [NoCall EXCEPT !.op = op, !.rel = rel, !.dst = dst, !.body = body,
                              !.flag = flag, !.fault = fault, !.err = r.err,
                              !.sys = r.sys, !.bytes = r.bytes,
                              !.entries = r.entries, !.kind = r.kind, !.before = fs]
    /\ UNCHANGED <<RootDir, wr, rd, crashed>>

\* a resolve that would create the directory it names
CallresolveMaking ==
    /\ calls < MaxCalls
    /\ \E p \in RelPaths :
        \E r \in {resolve(RootDir, p)} :
            /\ calls' = calls + 1
            /\ last' = [NoCall EXCEPT !.op = "resolve", !.rel = p, !.err = r.err,
                                      !.abs = r.abs, !.before = fs]
            /\ fs' = IF r.err = ErrNone THEN OsMkdirAll(fs, r.abs).d ELSE fs
            /\ UNCHANGED <<RootDir, wr, rd, crashed>>

\* resolve by itself: it makes no OS call
Callresolve ==
    /\ calls < MaxCalls
    /\ \E p \in RelPaths :
        \E r \in {resolve(RootDir, p)} :
            /\ calls' = calls + 1
            /\ last' = [NoCall EXCEPT !.op = "resolve", !.rel = p, !.err = r.err,
                                      !.abs = r.abs, !.before = fs]
            /\ UNCHANGED <<RootDir, fs, wr, rd, crashed>>

CallStat ==
    /\ calls < MaxCalls
    /\ \E p \in RelPaths :
        \E r \in {Stat(RootDir, fs, p)} :
            Returned("Stat", p, <<>>, <<>>, FALSE, "none", r)

CallList ==
    /\ calls < MaxCalls
    /\ \E p \in RelPaths :
        \E r \in {List(RootDir, fs, p)} :
            Returned("List", p, <<>>, <<>>, FALSE, "none", r)

CallReadFile ==
    /\ calls < MaxCalls
    /\ \E p \in RelPaths :
        \E r \in {ReadFile(RootDir, fs, p)} :
            Returned("ReadFile", p, <<>>, <<>>, FALSE, "none", r)

CallDetectMIMEType ==
    /\ calls < MaxCalls
    /\ \E p \in RelPaths :
        \E r \in {DetectMIMEType(RootDir, fs, p)} :
            Returned("DetectMIMEType", p, <<>>, <<>>, FALSE, "none", r)

CallWriteFile ==
    /\ calls < MaxCalls
    /\ \E p \in RelPaths, b \in Contents, create \in BOOLEAN :
        \E r \in {WriteFile(RootDir, fs, p, b, create)} :
            Returned("WriteFile", p, <<>>, b, create, "none", r)

CallSaveStream ==
    /\ calls < MaxCalls
    /\ \E p \in RelPaths, b \in Contents, overwrite \in BOOLEAN, f \in Faults :
        \E r \in {SaveStream(RootDir, fs, p, b, overwrite, f)} :
            Returned("SaveStream", p, <<>>, b, overwrite, f, r)

CallDelete ==
    /\ calls < MaxCalls
    /\ \E p \in RelPaths :
        \E r \in {Delete(RootDir, fs, p)} :
            Returned("Delete", p, <<>>, <<>>, FALSE, "none", r)

CallDeleteRecursive ==
    /\ calls < MaxCalls
    /\ \E p \in RelPaths :
        \E r \in {DeleteRecursive(RootDir, fs, p)} :
            Returned("DeleteRecursive", p, <<>>, <<>>, FALSE, "none", r)

CallMkdirAll ==
    /\ calls < MaxCalls
    /\ \E p \in RelPaths :
        \E r \in {MkdirAll(RootDir, fs, p)} :
            Returned("MkdirAll", p, <<>>, <<>>, FALSE, "none", r)

CallRename ==
    /\ calls < MaxCalls
    /\ \E p \in RelPaths, q \in RelPaths \cup {<<" ">>}, overwrite \in BOOLEAN :
        \E r \in {Rename(RootDir, fs, p, q, overwrite)} :
            Returned("Rename", p, q, <<>>, overwrite, "none", r)

Next ==
    \/ Callresolve
    \/ CallStat
    \/ CallList
    \/ CallReadFile
    \/ CallDetectMIMEType
    \/ CallWriteFile
    \/ CallSaveStream
    \/ CallDelete
    \/ CallDeleteRecursive
    \/ CallMkdirAll
    \/ CallRename

Spec == Init /\ [][Next]_vars

\* ------------------------------------------------- HTTP requests, one by one

\* the wildcard path of a request as the client sends it
RawParams ==
    { <<>>,
      <<"a">>,
      <<"a", SEP, "b">>,
      <<"e">>,
      <<"n">>,
      <<"n", SEP, "m">>,
      <<DOT, DOT, SEP, "r", "2", SEP, "x">>,                        \* ../r2/x
      <<PCT, "2", "e", PCT, "2", "e", SEP, "r", "2", SEP, "x">>,    \* %2e%2e/r2/x
      <<DOT, DOT, PCT, "2", "F", "r", "2">>,                        \* ..%2Fr2
      <<"a", PCT, "2", "f", "b">>,                                  \* a%2fb
      <<"n", PCT>> }                                                \* n% (malformed)

\* names in JSON bodies and new names of renames
ClientNames ==
    { <<>>, <<"n">>, <<"e">>, <<" ">>, <<DOT, DOT, SEP, "r", "2", SEP, "y">> }

\* file names of uploaded parts: a part without a file name is no file part
FileNames == ClientNames \ {<<>>}

\* the file parts of an upload, each with the fault its stream meets: one
\* part, or the part n followed by a second one, or none
Uploads ==
    { <<[filename |-> n, bytes |-> b, fault |-> f]>> :
          n \in FileNames, b \in Contents, f \in Faults }
    \cup { << [filename |-> <<"n">>, bytes |-> b, fault |-> "none"],
              [filename |-> n, bytes |-> b, fault |-> f] >> :
              n \in {<<"m">>, <<"e">>}, b \in Contents \ {<<>>}, f \in Faults }
    \cup { <<>> }

\* the name an upload is recorded under: the file name of its last part
UploadName(files) == IF files = <<>> THEN <<>> ELSE files[Len(files)].filename
UploadBytes(files) == IF files = <<>> THEN <<>> ELSE files[Len(files)].bytes
UploadFault(files) == IF files = <<>> THEN "none" ELSE files[Len(files)].fault

\* the form an upload is recorded under: by its number of parts
UploadForm(files) ==
    IF files = <<>> THEN "multipart0"
    ELSE IF Len(files) = 2 THEN "multipart2" ELSE "multipart"

ContentTypes == {"application/octet-stream", "multipart/form-data", "application/json"}

\* the request verb(raw, ...) with a body of the given form got the response r
Requested(verb, form, raw, name, body, flag, fault, r) ==
    /\ calls' = calls + 1
    /\ fs' = Gc(r.d, {})
    /\ last' = [NoCall EXCEPT !.op = verb, !.form = form,
                              !.rel = raw, !.dst = name, !.body = body,
                              !.flag = flag, !.fault = fault, !.err = r.err,
                              !.bytes = r.bytes, !.status = r.status,
                              !.kind = r.kind, !.path = r.path,
                              !.uploaded = r.uploaded, !.before = fs]
    /\ UNCHANGED <<RootDir, wr, rd, crashed>>

\* the same for a request whose body has no form of interest
Responded(verb, raw, name, body, flag, fault, r) ==
    Requested(verb, "", raw, name, body, flag, fault, r)

ReqGet ==
    /\ calls < MaxCalls
    /\ \E raw \in RawParams, stat \in BOOLEAN :
        \E r \in {Get(RootDir, fs, raw, stat)} :
            Responded("GET", raw, <<>>, <<>>, stat, "none", r)

NoJSON == [ok |-> FALSE, path |-> <<>>, type |-> "", overwrite |-> FALSE]

ReqPostUpload ==
    /\ calls < MaxCalls
    /\ \E raw \in RawParams, files \in Uploads, overwrite \in BOOLEAN :
        \E r \in {Post(RootDir, fs, raw, "multipart/form-data", files,
                       NoJSON, overwrite, UploadFault(files))} :
            Requested("POST", UploadForm(files), raw, UploadName(files),
                      UploadBytes(files), overwrite, UploadFault(files), r)

ReqPostJSON ==
    /\ calls < MaxCalls
    /\ \E raw \in RawParams, n \in ClientNames, overwrite \in BOOLEAN, ok \in BOOLEAN,
       t \in {"directory", "file", ""} :
        \E r \in {Post(RootDir, fs, raw, "application/json", <<>>,
                       [ok |-> ok, path |-> n, type |-> t, overwrite |-> overwrite],
                       FALSE, "none")} :
            Requested("POST", IF ok THEN t ELSE "invalid", raw, n, <<>>,
                      overwrite, "none", r)

ReqPut ==
    /\ calls < MaxCalls
    /\ \E raw \in RawParams, ct \in ContentTypes, b \in Contents, overwrite \in BOOLEAN,
       f \in Faults :
        \E r \in {Put(RootDir, fs, raw, ct, b, overwrite, f)} :
            Responded("PUT", raw, <<>>, b, overwrite, f, r)

ReqPatch ==
    /\ calls < MaxCalls
    /\ \E raw \in RawParams, n \in ClientNames, ok \in BOOLEAN :
        \E r \in {Patch(RootDir, fs, raw, ok, n)} :
            Responded("PATCH", raw, n, <<>>, ok, "none", r)

ReqDelete ==
    /\ calls < MaxCalls
    /\ \E raw \in RawParams, recursive \in BOOLEAN :
        \E r \in {HandleDelete(RootDir, fs, raw, recursive)} :
            Responded("DELETE", raw, <<>>, <<>>, recursive, "none", r)

\* the POST of the handler revision with createSubFolder: an upload
ReqPostSubFolderUpload ==
    /\ calls < MaxCalls
    /\ \E raw \in RawParams, files \in Uploads, overwrite \in BOOLEAN :
        \E r \in {PostSubFolder(RootDir, fs, raw, "multipart/form-data", files,
                       [ok |-> FALSE, name |-> <<>>], overwrite, UploadFault(files))} :
            Requested("POST", UploadForm(files), raw, UploadName(files),
                      UploadBytes(files), overwrite, UploadFault(files), r)

\* the POST of the handler revision with createSubFolder: a body {"name": n}
ReqPostSubFolderJSON ==
    /\ calls < MaxCalls
    /\ \E raw \in RawParams, n \in ClientNames, ok \in BOOLEAN :
        \E r \in {PostSubFolder(RootDir, fs, raw, "application/json", <<>>,
                                [ok |-> ok, name |-> n], FALSE, "none")} :
            Requested("POST", IF ok THEN "name" ELSE "invalid", raw, n, <<>>,
                      FALSE, "none", r)

NextApi ==
    \/ ReqGet
    \/ ReqPostUpload
    \/ ReqPostJSON
    \/ ReqPostSubFolderUpload
    \/ ReqPostSubFolderJSON
    \/ ReqPut
    \/ ReqPatch
    \/ ReqDelete

SpecApi == Init /\ [][NextApi]_vars

\* ------------------------------ HTTP requests to server/fs_handler.go

\* bodies of a PUT: the base64 text of a content, or the plain text hello
Hello == <<"h", "e", "l", "l", "o">>
Bodies == {EncodeToString(c) : c \in Contents} \cup {Hello}

SrvReqGet ==
    /\ calls < MaxCalls
    /\ \E raw \in RawParams, stat \in BOOLEAN :
        \E r \in {SrvGet(RootDir, fs, raw, stat)} :
            Responded("GET", raw, <<>>, <<>>, stat, "none", r)

SrvReqPostUpload ==
    /\ calls < MaxCalls
    /\ \E raw \in RawParams, files \in Uploads, overwrite \in BOOLEAN :
        \E r \in {SrvPost(RootDir, fs, raw, "multipart/form-data", files,
                          [ok |-> FALSE, name |-> <<>>], overwrite)} :
            Requested("POST", UploadForm(files), raw, UploadName(files),
                      UploadBytes(files), overwrite, UploadFault(files), r)

SrvReqPostJSON ==
    /\ calls < MaxCalls
    /\ \E raw \in RawParams, n \in ClientNames, ok \in BOOLEAN :
        \E r \in {SrvPost(RootDir, fs, raw, "application/json", <<>>,
                          [ok |-> ok, name |-> n], FALSE)} :
            Requested("POST", IF ok THEN "name" ELSE "invalid", raw, n, <<>>,
                      FALSE, "none", r)

SrvReqPut ==
    /\ calls < MaxCalls
    /\ \E raw \in RawParams, n \in ClientNames, b \in Bodies :
        \E r \in {SrvPut(RootDir, fs, raw, n, b)} :
            Responded("PUT", raw, n, b, FALSE, "none", r)

SrvReqDelete ==
    /\ calls < MaxCalls
    /\ \E raw \in RawParams, recursive \in BOOLEAN :
        \E r \in {SrvDelete(RootDir, fs, raw, recursive)} :
            Responded("DELETE", raw, <<>>, <<>>, recursive, "none", r)

NextSrv ==
    \/ SrvReqGet
    \/ SrvReqPostUpload
    \/ SrvReqPostJSON
    \/ SrvReqPut
    \/ SrvReqDelete

SpecSrv == Init /\ [][NextSrv]_vars

\* folders made by POST and deletions by the DELETE of either handler file
NextDelete ==
    \/ SrvReqPostJSON
    \/ SrvReqDelete
    \/ ReqDelete

SpecDelete == Init /\ [][NextDelete]_vars

\* ------------------------------- one SaveStream by steps, a reader, a crash

Writers == {1, 2}

\* the inodes that open descriptors keep: the writers' temp files, the reader's
OpenInos(w, r) == ({w[x].ino : x \in Writers} \cup {r.ino}) \ {0}

\* request w enters SaveStream
WBegin(w, paths, faults) ==
    /\ ~crashed
    /\ wr[w].pc = "idle"
    /\ \E p \in paths, b \in Contents, overwrite \in BOOLEAN, f \in faults :
        \E c \in {SaveStreamBegin(RootDir, fs, p, b, overwrite, f)} :
            wr' = [wr EXCEPT ![w] = c]
    /\ calls' = calls + 1
    /\ UNCHANGED <<RootDir, fs, last, rd, crashed>>

\* request w makes the next OS call of its SaveStream
WStep(w) ==
    /\ ~crashed
    /\ wr[w].pc \notin {"idle", "done"}
    /\ \E n \in {SaveStreamStep(fs, wr[w])} :
        \E nwr \in {[wr EXCEPT ![w] = n.c]} :
            /\ wr' = nwr
            /\ fs' = Gc(n.d, OpenInos(nwr, rd))
    /\ UNCHANGED <<RootDir, last, calls, rd, crashed>>

\* A reader opens the path a SaveStream in progress (or returned) writes to:
\* os.ReadFile begins with open(2), which binds the inode then under the name
ROpen ==
    /\ ~crashed
    /\ rd.pc = "idle"
    /\ \E w \in Writers :
        /\ wr[w].pc # "idle"
        /\ wr[w].abs # <<>>
        /\ rd' = IF IsFileAt(fs, wr[w].abs)
                 THEN [pc |-> "open", path |-> wr[w].abs, ino |-> fs.names[wr[w].abs],
                       seen |-> <<"none">>]
                 ELSE [pc |-> "done", path |-> wr[w].abs, ino |-> 0,
                       seen |-> NodeAt(fs, wr[w].abs)]
    /\ UNCHANGED <<RootDir, fs, last, calls, wr, crashed>>

\* the reader reads the bytes of the inode it opened and closes it
RRead ==
    /\ ~crashed
    /\ rd.pc = "open"
    /\ \E nrd \in {[rd EXCEPT !.pc = "done", !.ino = 0,
                              !.seen = <<"file", fs.data[rd.ino]>>]} :
        /\ rd' = nrd
        /\ fs' = Gc(fs, OpenInos(wr, nrd))
    /\ UNCHANGED <<RootDir, last, calls, wr, crashed>>

\* the server process dies between two OS calls of the SaveStream of request 1;
\* the descriptors are closed, the calls never go on
Crash ==
    /\ ~crashed
    /\ wr[1].pc # "idle"
    /\ crashed' = TRUE
    /\ fs' = Gc(fs, {})
    /\ UNCHANGED <<RootDir, last, calls, wr, rd>>

NextStream ==
    \/ WBegin(1, RelPaths, Faults)
    \/ WStep(1)
    \/ ROpen
    \/ RRead
    \/ Crash

SpecStream == Init /\ [][NextStream]_vars

\* ------------------------------------------- two SaveStream calls at once

\* the paths two concurrent requests write to: a new file, an existing file
RacePaths == { <<"n">>, <<"a", SEP, "b">> }

NextRace ==
    \/ \E w \in Writers : WBegin(w, RacePaths, {"none"})
    \/ \E w \in Writers : WStep(w)
    \/ ROpen
    \/ RRead

SpecRace == Init /\ [][NextRace]_vars

\* --------------------------------------------------------------- properties

\* Root as the directory it names: the canonical absolute path
Root == Clean(RootDir)

\* p is Root or lies below it
Inside(p) == p = Root \/ HasPrefix(p, Root \o <<SEP>>)

\* where a client path points, read from Root
Target(rel) == Clean(Root \o <<SEP>> \o rel)

\* rel has a ".." segment
HasDotDot(rel) == \E i \in 1..Len(Split(rel)) : Split(rel)[i] = DotDot

\* rel has ".." segments that resolve outside Root
Escapes(rel) == HasDotDot(rel) /\ ~Inside(Target(rel))

\* every path that names something in the tree d or in the tree e
Named(d, e) == (DOMAIN d.names) \cup (DOMAIN e.names)

\* C1: resolve(p) fails with PathTraversal, or returns a cleaned absolute path
\* that is Root or has Root + separator as a string prefix; a path into the
\* sibling /r2 of the root /r is rejected.
C1_ResolveConfined ==
    last.op = "resolve" =>
        /\ \/ last.err = ErrPathTraversal
           \/ /\ last.err = ErrNone
              /\ IsAbs(last.abs)
              /\ Clean(last.abs) = last.abs
              /\ Inside(last.abs)
        /\ (Target(last.rel) = pSibling \/ IsUnder(Target(last.rel), pSibling))
               => last.err = ErrPathTraversal

\* C1 witness: resolve was called with ../r2/x and rejected it
C1_Witness ==
    /\ last.op = "resolve"
    /\ last.rel = <<DOT, DOT, SEP, "r", "2", SEP, "x">>
    /\ Target(last.rel) = pSecret
    /\ last.err = ErrPathTraversal

\* C2: after any sequence of API requests no node outside Root has been
\* created, modified, moved or removed, and no content from outside Root has
\* been returned.
C2_NothingOutsideRoot ==
    /\ \A q \in Named(fs, InitTree) : ~Inside(q) => NodeAt(fs, q) = NodeAt(InitTree, q)
    /\ last.bytes # SecretBytes

\* the file service operations that take client paths
ServiceOps ==
    {"Stat", "List", "ReadFile", "WriteFile", "SaveStream", "Delete",
     "DeleteRecursive", "MkdirAll", "Rename", "DetectMIMEType"}

\* C3: a file service operation given a path whose ".." segments resolve
\* outside Root (for Rename: the source or the destination, a new name being
\* given) fails with PathTraversal and has made no filesystem call.
C3_TraversalBeforeIO ==
    (/\ last.op \in ServiceOps
     /\ last.op = "Rename" => ~IsBlank(last.dst)
     /\ Escapes(last.rel) \/ (last.op = "Rename" /\ Escapes(last.dst)))
        => last.err = ErrPathTraversal /\ last.sys = <<>>

\* what may be under the name P while the call c writes it: what was there on
\* entry, or a file holding exactly the content of the call
Visible(c) == {c.pre, <<"file", c.content>>}

\* C4: while the only SaveStream(P, C) is in progress, P is absent or as it
\* was before the call, or holds exactly C, and so is what a concurrent read
\* of P observes, at every interleaving point.
C4_ReaderSeesOldOrWhole ==
    (wr[1].pc # "idle" /\ wr[1].abs # <<>>) =>
        /\ NodeAt(fs, wr[1].abs) \in Visible(wr[1])
        /\ (rd.pc = "done" /\ rd.path = wr[1].abs) => rd.seen \in Visible(wr[1])

\* C4 witness: the copy of an overwriting call is half done and a reader that
\* read P meanwhile got the previous content
C4_Witness ==
    /\ wr[1].pc = "copy"
    /\ wr[1].off > 0
    /\ wr[1].off < Len(wr[1].content)
    /\ wr[1].pre = <<"file", OldBytes>>
    /\ rd.pc = "done"
    /\ rd.path = wr[1].abs
    /\ rd.seen = wr[1].pre

\* the calls in progress or returned that write the path p
WritersOf(p) == {w \in Writers : wr[w].pc # "idle" /\ wr[w].abs = p}

\* C5: with several SaveStream calls on the same P, the file under the name P
\* holds at every moment the complete content of one call or the previous
\* content, and a reader observes nothing else.
C5_AtomicAmongWriters ==
    \A w \in Writers :
        (wr[w].pc # "idle" /\ wr[w].abs # <<>>) =>
            /\ \E x \in WritersOf(wr[w].abs) : NodeAt(fs, wr[w].abs) \in Visible(wr[x])
            /\ (rd.pc = "done" /\ rd.path = wr[w].abs)
                   => \E x \in WritersOf(wr[w].abs) : rd.seen \in Visible(wr[x])

\* C6: once two concurrent overwriting SaveStream calls of C1 and C2 to the
\* same P have both returned, P holds exactly C1 or exactly C2.
C6_LastWriteWins ==
    (/\ wr[1].pc = "done" /\ wr[2].pc = "done"
     /\ wr[1].abs # <<>> /\ wr[1].abs = wr[2].abs
     /\ wr[1].overwrite /\ wr[2].overwrite)
        => NodeAt(fs, wr[1].abs) \in {<<"file", wr[1].content>>, <<"file", wr[2].content>>}

\* p is a directory above q that the tree d lacks
MissingParent(d, p, q) == ~Exists(d, p) /\ IsUnder(q, p)

\* C7 as stated: after a crash during SaveStream(P, C), P is as before the call
\* or holds exactly C, and nothing but P and P.part differs from the tree
\* before the call.
C7_OnlyPartLeft ==
    (crashed /\ wr[1].abs # <<>>) =>
        /\ NodeAt(fs, wr[1].abs) \in Visible(wr[1])
        /\ \A q \in Named(fs, InitTree) :
               q \notin {wr[1].abs, wr[1].tmp} => NodeAt(fs, q) = NodeAt(InitTree, q)

\* C7, amended: after a crash during SaveStream(P, C), P is as before the call
\* or holds exactly C; what else differs from the tree before the call is an
\* orphaned file P.part and parent directories of P the call created.
C7_CrashLeaves ==
    (crashed /\ wr[1].abs # <<>>) =>
        /\ NodeAt(fs, wr[1].abs) \in Visible(wr[1])
        /\ \A q \in Named(fs, InitTree) :
               \/ q = wr[1].abs
               \/ q = wr[1].tmp /\ ~IsDirAt(fs, q)
               \/ NodeAt(fs, q) = NodeAt(InitTree, q)
               \/ MissingParent(InitTree, q, wr[1].abs) /\ IsDirAt(fs, q)

\* C7 witness: the process crashed in the middle of the copy to n/m; P.part is
\* there, the parent directory n was made, P is absent as before
C7_Witness ==
    /\ crashed
    /\ wr[1].pc = "copy"
    /\ wr[1].off > 0
    /\ IsFileAt(fs, wr[1].tmp)
    /\ MissingParent(InitTree, Dir(wr[1].abs), wr[1].abs)
    /\ IsDirAt(fs, Dir(wr[1].abs))
    /\ NodeAt(fs, wr[1].abs) = <<"absent">>

\* the last call was SaveStream(P, C, overwrite=false) on an absent P and
\* returned success
SavedNew ==
    /\ last.op = "SaveStream"
    /\ ~last.flag
    /\ last.err = ErrNone
    /\ resolve(RootDir, last.rel).err = ErrNone
    /\ ~Exists(last.before, resolve(RootDir, last.rel).abs)

\* C8: when P does not exist and SaveStream(P, C, overwrite=false) succeeds,
\* ReadFile(P) right after it succeeds and returns exactly C.
C8_RoundTrip ==
    SavedNew =>
        /\ ReadFile(RootDir, fs, last.rel).err = ErrNone
        /\ ReadFile(RootDir, fs, last.rel).bytes = last.body

\* C8 witness: a non-empty stream was saved to a new path below a new directory
C8_Witness ==
    /\ SavedNew
    /\ last.rel = <<"n", SEP, "m">>
    /\ last.body # <<>>
    /\ ReadFile(RootDir, fs, last.rel).bytes = last.body

\* the target of the last call in the tree before it
LastAbs == resolve(RootDir, last.rel).abs

\* the last call was Delete on a directory with at least one entry
DeletedNonEmpty ==
    /\ last.op = "Delete"
    /\ resolve(RootDir, last.rel).err = ErrNone
    /\ IsDirAt(last.before, LastAbs)
    /\ Children(last.before, LastAbs) # {}

\* C9: Delete on a directory with an entry fails with DirectoryNotEmpty and
\* changes nothing; a Delete that succeeds has removed one file or one empty
\* directory and nothing else.
C9_DeleteNonEmpty ==
    /\ DeletedNonEmpty => last.err = ErrDirNotEmpty /\ fs = last.before
    /\ (last.op = "Delete" /\ last.err = ErrNone) =>
           /\ resolve(RootDir, last.rel).err = ErrNone
           /\ Exists(last.before, LastAbs)
           /\ Children(last.before, LastAbs) = {}
           /\ DOMAIN fs.names = (DOMAIN last.before.names) \ {LastAbs}
           /\ \A q \in DOMAIN fs.names : fs.names[q] = last.before.names[q]
    /\ (last.op = "Delete" /\ last.err # ErrNone) => fs = last.before

\* C9 witness: Delete of the directory a, which holds the file b, was refused
C9_Witness ==
    /\ DeletedNonEmpty
    /\ last.rel = <<"a">>
    /\ last.err = ErrDirNotEmpty
    /\ IsFileAt(fs, pAB)

\* the last call was Rename(src, dst, overwrite=false) with a new name given,
\* an existing src and a node at dst
RenamedOntoExisting ==
    /\ last.op = "Rename"
    /\ ~last.flag
    /\ ~IsBlank(last.dst)
    /\ resolve(RootDir, last.rel).err = ErrNone
    /\ Exists(last.before, resolve(RootDir, last.rel).abs)
    /\ resolve(RootDir, last.dst).err = ErrNone
    /\ Exists(last.before, resolve(RootDir, last.dst).abs)

\* C10: Rename(src, dst, overwrite=false) with src existing and a node at dst
\* fails with AlreadyExists and leaves the source and the destination (the
\* whole tree) unchanged.
C10_RenameNoOverwrite ==
    RenamedOntoExisting => last.err = ErrAlreadyExists /\ fs = last.before

\* C10 witness: the rename of the file a/b onto the directory e was refused
C10_Witness ==
    /\ RenamedOntoExisting
    /\ last.rel = <<"a", SEP, "b">>
    /\ last.dst = <<"e">>
    /\ last.err = ErrAlreadyExists
    /\ IsFileAt(fs, pAB)
    /\ IsDirAt(fs, pE)

\* the last step was an HTTP request
IsRequest == last.op \in {"GET", "POST", "PUT", "PATCH", "DELETE"}

\* C11: whenever the file service operation behind a response returned
\* NotFound, the status of the response is 404 - in every handler.
C11_NotFoundIs404 ==
    (IsRequest /\ last.err = ErrNotFound) => last.status = StatusNotFound

\* C12: whenever the path of a request resolves outside Root, so that the
\* file service returns PathTraversal, the status is 400 - for every verb.
C12_TraversalIs400 ==
    (IsRequest /\ last.err = ErrPathTraversal) => last.status = StatusBadRequest

\* C13: whenever the file service returns AlreadyExists to a handler (a
\* SaveStream or a Rename without overwrite onto an existing path, reached by
\* PUT, by a POST upload or by PATCH), the status is 409.
C13_AlreadyExistsIs409 ==
    (IsRequest /\ last.err = ErrAlreadyExists) => last.status = StatusConflict

\* the folder name of the end-to-end scenarios: nothing is there at the start
Docs == <<"n">>

\* the four requests of the folder scenario, one after the other from the
\* tree d: what each response carries
FolderLifecycle(root, d) ==
    Bind(SrvPost(root, d, <<>>, "application/json", <<>>,
                 [ok |-> TRUE, name |-> Docs], FALSE), LAMBDA r1 :
    Bind(SrvGet(root, r1.d, Docs, TRUE), LAMBDA r2 :
    Bind(SrvDelete(root, r2.d, Docs, FALSE), LAMBDA r3 :
    Bind(SrvGet(root, r3.d, Docs, TRUE), LAMBDA r4 :
         [created |-> r1.status, path |-> r1.path, stat |-> r2.status,
          type |-> r2.kind, deleted |-> r3.status, gone |-> r4.status]))))

\* C14: with no node docs, POST /fs/ with {"name": "docs"} answers 201 with
\* the path docs, GET /fs/docs?stat=true then answers 200 and a directory,
\* DELETE /fs/docs answers 200, and a last GET /fs/docs?stat=true answers 404.
C14_FolderLifecycle ==
    ~Exists(fs, Target(Docs)) =>
        FolderLifecycle(RootDir, fs) =
            [created |-> StatusCreated, path |-> Docs, stat |-> StatusOK,
             type |-> "directory", deleted |-> StatusOK, gone |-> StatusNotFound]

\* the file of the end-to-end scenario, in a directory that is not there
DocsFile == <<"n", SEP, "m">>

\* the bytes of the text hello
HelloBytes == <<104, 101, 108, 108, 111>>

\* the two requests of the file scenario, one after the other from the tree
\* d: what each response carries and what the PUT left in the tree
FileLifecycle(root, d) ==
    Bind(SrvPut(root, d, DocsFile, <<>>, Hello), LAMBDA r1 :
    Bind(SrvGet(root, r1.d, DocsFile, FALSE), LAMBDA r2 :
         [put |-> r1.status, parent |-> IsDirAt(r1.d, Target(Docs)),
          stored |-> NodeAt(r1.d, Target(DocsFile)),
          got |-> r2.status, body |-> r2.bytes]))

\* C15: when the directory a is not there, PUT /fs/a/b.txt with the body
\* hello creates a, stores the body at a/b.txt and answers 200, and a
\* following GET /fs/a/b.txt returns exactly the bytes hello.
C15_PutThenGet ==
    ~Exists(fs, Target(Docs)) =>
        FileLifecycle(RootDir, fs) =
            [put |-> StatusOK, parent |-> TRUE, stored |-> <<"file", HelloBytes>>,
             got |-> StatusOK, body |-> Hello]

\* C16: for every configured Root, resolving the empty relative path, and the
\* path "/", succeeds and returns Root itself, never PathTraversal.
C16_EmptyPathIsRoot ==
    \A p \in {<<>>, <<SEP>>} : resolve(RootDir, p) = [abs |-> Root, err |-> ErrNone]

WroteFile == last.op = "WriteFile" /\ resolve(RootDir, last.rel).err = ErrNone

\* no file lies on the way to p in the tree d: every ancestor of p is a
\* directory or missing
NoFileAbove(d, p) == ~IsFileAt(d, ExistingAnc(d, Dir(p)))

DeletedRecursive ==
    last.op = "DeleteRecursive" /\ resolve(RootDir, last.rel).err = ErrNone

\* C19: DeleteRecursive(P) fails with NotFound and changes nothing when no
\* node is at P; otherwise it succeeds, P and everything below P are gone, and
\* every node outside the subtree of P is as it was.
C19_DeleteRecursive ==
    DeletedRecursive =>
        /\ ~Exists(last.before, LastAbs) =>
               last.err = ErrNotFound /\ fs = last.before
        /\ Exists(last.before, LastAbs) =>
               /\ last.err = ErrNone
               /\ \A q \in Named(fs, last.before) :
                      IF q = LastAbs \/ IsUnder(q, LastAbs)
                      THEN ~Exists(fs, q)
                      ELSE NodeAt(fs, q) = NodeAt(last.before, q)

\* the directory a POST names in its path, and the folder its JSON body names
\* under it
PostedDir == pathFromCtx(last.rel)
PostedFolder == IF PostedDir = <<>> THEN last.dst ELSE Join(PostedDir, last.dst)

\* the last request was a POST whose JSON body names a folder, without ".."
\* segments, under a directory that exists inside Root
PostedFolderName ==
    /\ last.op = "POST"
    /\ last.form \in {"directory", "name"}
    /\ ~IsBlank(last.dst)
    /\ ~HasDotDot(last.dst)
    /\ ~HasDotDot(PostedDir)
    /\ IsDirAt(last.before, Target(PostedDir))

\* C20: a POST with a JSON body naming a folder under an existing directory
\* answers 409 and changes nothing when a node is at path/name; otherwise it
\* creates the directory path/name and answers 201 with the created path.
C20_CreateFolder ==
    PostedFolderName =>
        IF Exists(last.before, Target(PostedFolder))
        THEN last.status = StatusConflict /\ fs = last.before
        ELSE /\ IsDirAt(fs, Target(PostedFolder))
             /\ last.status = StatusCreated
             /\ last.path = PostedFolder

\* the file names of the parts of the last upload, in their order
PostedNames ==
    IF last.form = "multipart2" THEN <<<<"n">>, last.dst>> ELSE <<last.dst>>

\* where the part with the file name n of the last upload belongs
PartTarget(n) ==
    Target(IF PostedDir = <<>> THEN Base(n) ELSE Join(PostedDir, Base(n)))

\* the last request was an upload of one or two parts whose streams met no
\* fault, to a path without ".." segments
PostedUpload ==
    /\ last.op = "POST"
    /\ last.form \in {"multipart", "multipart2"}
    /\ last.fault = "none"
    /\ ~HasDotDot(PostedDir)

\* C21: a multipart POST to an existing directory saves every part, under
\* names that were free, and answers 201 with the names of all parts; a POST
\* to a path that is missing or not a directory saves nothing and answers
\* with an error status.
C21_UploadAll ==
    PostedUpload =>
        IF IsDirAt(last.before, Target(PostedDir))
        THEN (\A i \in 1..Len(PostedNames) :
                  ~Exists(last.before, PartTarget(PostedNames[i]))) =>
                 /\ \A i \in 1..Len(PostedNames) :
                        NodeAt(fs, PartTarget(PostedNames[i])) = <<"file", last.body>>
                 /\ last.status = StatusCreated
                 /\ last.uploaded = [i \in 1..Len(PostedNames) |-> Base(PostedNames[i])]
        ELSE fs = last.before /\ last.status >= StatusBadRequest

\* the path of the last DELETE, and what the two deletions of the file
\* service return for it on the tree before the request
DeletedRel == pathFromCtx(last.rel)
ByDeleteRecursive == DeleteRecursive(RootDir, last.before, DeletedRel)
ByDelete == Delete(RootDir, last.before, DeletedRel)

\* C22: DELETE with recursive=true does what DeleteRecursive does, otherwise
\* what Delete does; when Delete reports a non-empty directory the response
\* is 400 and nothing is removed; a deletion that succeeds is answered 200.
C22_DeleteDispatch ==
    last.op = "DELETE" =>
        /\ last.flag =>
               /\ fs = Gc(ByDeleteRecursive.d, {})
               /\ last.err = ByDeleteRecursive.err
        /\ ~last.flag =>
               /\ fs = Gc(ByDelete.d, {})
               /\ last.err = ByDelete.err
               /\ ByDelete.err = ErrDirNotEmpty =>
                      last.status = StatusBadRequest /\ fs = last.before
        /\ (~last.flag /\ IsDirAt(last.before, Target(DeletedRel))
                /\ Children(last.before, Target(DeletedRel)) # {}
                /\ resolve(RootDir, DeletedRel).err = ErrNone) =>
               last.status = StatusBadRequest /\ fs = last.before
        /\ last.err = ErrNone <=> last.status = StatusOK
        /\ last.err = ErrNone =>
               ~Exists(fs, resolve(RootDir, DeletedRel).abs)

\* C22 witness: DELETE /fs/a without the recursive flag, on the directory a
\* that holds the file b, was answered 400 and a/b is still there
C22_Witness ==
    /\ last.op = "DELETE"
    /\ ~last.flag
    /\ last.rel = <<"a">>
    /\ last.status = StatusBadRequest
    /\ last.err = ErrDirNotEmpty
    /\ NodeAt(fs, Target(<<"a", SEP, "b">>)) = <<"file", OldBytes>>

\* the last call was SaveStream on a path that resolves inside Root
SavedStream == last.op = "SaveStream" /\ resolve(RootDir, last.rel).err = ErrNone

\* the OS calls of the last call include the one named s
Called(s) == \E i \in 1..Len(last.sys) : last.sys[i] = s

\* C23: SaveStream(P, _, overwrite=false) with a node at P returns
\* AlreadyExists before the temp file is opened: P is unchanged, no P.part is
\* created or truncated, and nothing else changes.
C23_ExistsBeforeTemp ==
    (SavedStream /\ ~last.flag /\ Exists(last.before, LastAbs)) =>
        /\ last.err = ErrAlreadyExists
        /\ ~Called("Create")
        /\ NodeAt(fs, LastAbs) = NodeAt(last.before, LastAbs)
        /\ NodeAt(fs, LastAbs \o PartSuffix) = NodeAt(last.before, LastAbs \o PartSuffix)
        /\ fs = last.before

\* C23 witness: SaveStream without overwrite on the file a/b was refused and
\* a/b holds its old bytes
C23_Witness ==
    /\ SavedStream
    /\ ~last.flag
    /\ last.rel = <<"a", SEP, "b">>
    /\ last.body # <<>>
    /\ last.err = ErrAlreadyExists
    /\ NodeAt(fs, LastAbs) = <<"file", OldBytes>>
    /\ ~Exists(fs, LastAbs \o PartSuffix)

\* the copy or the close of the last SaveStream failed
CopyOrCloseFailed == SavedStream /\ last.fault # "none" /\ Called("Close")

\* C24: when the copy from the reader or the close of the temp file fails
\* during SaveStream(P, ...), P.part is removed, that error is returned, and
\* what was under P before the call (nothing, or the old content) is unchanged.
C24_FailedCopyCleansUp ==
    CopyOrCloseFailed =>
        /\ last.err = EIO
        /\ Called("Remove")
        /\ ~Called("Rename")
        /\ ~Exists(fs, LastAbs \o PartSuffix)
        /\ NodeAt(fs, LastAbs) = NodeAt(last.before, LastAbs)

\* C24 witness: a SaveStream over the file a/b failed in the copy after bytes
\* were written; a/b holds its old bytes and a/b.part is gone
C24_Witness ==
    /\ CopyOrCloseFailed
    /\ last.fault = "copy"
    /\ last.flag
    /\ last.rel = <<"a", SEP, "b">>
    /\ Called("Write")
    /\ last.err = EIO
    /\ NodeAt(fs, LastAbs) = <<"file", OldBytes>>
    /\ ~Exists(fs, LastAbs \o PartSuffix)

\* C25: whenever SaveStream(P, ...) returns an error, no P.part made by the
\* call remains and P is unchanged.
C25_NoArtifactOnError ==
    (SavedStream /\ last.err # ErrNone) =>
        /\ ~Exists(last.before, LastAbs \o PartSuffix) =>
               ~Exists(fs, LastAbs \o PartSuffix)
        /\ NodeAt(fs, LastAbs) = NodeAt(last.before, LastAbs)

\* C26: after any sequence of API requests Root is still a directory: no
\* request, DELETE on the empty path and a rename from or to the empty path
\* included, removes or moves it.
C26_RootSurvives ==
    IsRequest => IsDirAt(fs, Root)

\* C27: a WriteFile(P, data, create=false) call that fails with NotFound
\* leaves the tree exactly as it was before the call; in particular it creates
\* no parent directory of P.
C27_FailedWriteFrame ==
    (last.op = "WriteFile" /\ ~last.flag /\ last.err = ErrNotFound) =>
        fs = last.before

\* every node of d other than p is in e what it is in d
OthersKept(d, e, p) ==
    \A q \in DOMAIN d.names : q # p => NodeAt(e, q) = NodeAt(d, q)

\* C28: a SaveStream(P, C) call, successful or not, changes no existing node
\* other than P: every other node that existed before the call, a file named
\* P.part included, keeps its content.
C28_SaveStreamFrame ==
    \A p \in RelPaths, b \in Contents, overwrite \in BOOLEAN, f \in Faults :
        resolve(RootDir, p).err = ErrNone =>
            \A r \in {SaveStream(RootDir, fs, p, b, overwrite, f)} :
                OthersKept(fs, r.d, resolve(RootDir, p).abs)

\* two SaveStream calls with overwrite=false to the same path, both entered
\* while nothing was there, have both returned
RacedNoOverwrite(w, x) ==
    /\ w # x
    /\ wr[w].pc = "done" /\ wr[x].pc = "done"
    /\ wr[w].abs # <<>> /\ wr[w].abs = wr[x].abs
    /\ ~wr[w].overwrite /\ ~wr[x].overwrite
    /\ wr[w].pre = <<"absent">> /\ wr[x].pre = <<"absent">>

\* C29: when two SaveStream(P, ..., overwrite=false) calls race on an absent
\* P, at most one returns success, P then holds that call's content, and the
\* other call fails with AlreadyExists.
C29_OneCreatorWins ==
    \A w \in Writers, x \in Writers :
        (RacedNoOverwrite(w, x) /\ wr[w].err = ErrNone) =>
            /\ wr[x].err = ErrAlreadyExists
            /\ NodeAt(fs, wr[w].abs) = <<"file", wr[w].content>>

\* the path a rename request names, and the sibling its new name stands for
RenamedFrom == Target(pathFromParam(last.rel))
RenamedTo == Clean(Dir(RenamedFrom) \o <<SEP>> \o last.dst)

\* a name of one segment: no separator, not blank, not "." or ".."
BareName(n) ==
    /\ n # <<>>
    /\ \A i \in 1..Len(n) : n[i] \notin {SEP, " ", DOT}

\* the last request renamed an existing node below Root to another bare name,
\* by PATCH with a name or by PUT with new_name on a directory, and was
\* answered 200
RenamedByName ==
    /\ \/ last.op = "PATCH"
       \/ last.op = "PUT" /\ IsDirAt(last.before, RenamedFrom)
    /\ last.status = StatusOK
    /\ BareName(last.dst)
    /\ last.dst # Base(RenamedFrom)
    /\ Inside(RenamedFrom) /\ RenamedFrom # Root
    /\ Exists(last.before, RenamedFrom)

\* C30: a rename of the node at P to the bare name N leaves the node at the
\* sibling path parent(P)/N and nothing at P.
C30_RenameToSibling ==
    RenamedByName =>
        /\ NodeAt(fs, RenamedTo) = NodeAt(last.before, RenamedFrom)
        /\ ~Exists(fs, RenamedFrom)

====
